---------------------------- MODULE Spec2Model ----------------------------
(***************************************************************************)
(* Model of the frequency-domain restoration subsystem (HW3) of            *)
(* ClassPractice-Master: the inverse and Wiener filter operators, the      *)
(* validated results container, the PSNR metric and the pipeline that      *)
(* glues them together.                                                    *)
(*                                                                         *)
(* A numpy array is a record [shape, dtype, data]: shape is the tuple of   *)
(* its dimensions, data its samples in row-major order.                    *)
(***************************************************************************)
EXTENDS Integers, Sequences, FiniteSets, TLC

VARIABLES
    original,        \* compute_psnr: the reference image
    restored,        \* compute_psnr: the restored image
    psnr,            \* compute_psnr: what the call produced (kind "pending" before)
    schema_args,     \* RestorationResultsSchema(...): the two values passed
    results,         \* the RestorationResultsSchema object, kind "None" when there is none
    raised,          \* the exception the last call raised, kind "None" when it returned
    schema_pc,       \* "start", "constructed" (the constructor ended), "assigned"
    ctor_args,       \* the arguments of the last operator constructor call
    operator,        \* the constructed filter operator, kind "None" when there is none
    degraded_image,  \* the image handed to apply
    output,          \* the image apply returned, kind "None" when there is none
    warnings,        \* the warnings logged so far
    calls,           \* the apply calls so far: what went in and what came back
    pc,              \* process_image_pair: the statement to execute next
    call,            \* process_image_pair: its arguments
    image_uint8,     \* compute_restoration_outputs: the sanitized degraded image
    inverse_image,   \* compute_restoration_outputs: what apply_inverse_filter returned
    wiener_image,    \* compute_restoration_outputs: what apply_wiener_filter returned
    stats,           \* process_image_pair: the statistics dictionary
    saved_files,     \* the image files written by the loader
    figures,         \* the number of comparison figures the visualizer was asked for
    events,          \* the steps of the pipeline entered so far, in order
    image_names,     \* main: the names the loader listed
    pairs,           \* main: the (original, degraded) pairs of names
    driver_pc,       \* main: "start", "paired", "mainloop" (in app.run()), "closed", "exited"
    load_fails,      \* the environment: load_multiple_image_files raises
    outcomes,        \* the environment: how the processing of each pair ends
    worker_pc,       \* processing_worker: the statement to execute next
    pair_index,      \* processing_worker: the 1-based index of the loop
    processed_items, \* processing_worker: its local list of ProcessedItem
    processing_error, \* main: the threading.Event, TRUE when set
    scheduled,       \* the callbacks handed to root.after(0, ...), oldest first
    handled,         \* how many of them the main loop has run
    written,         \* the files written by save_results, in order
    exit_status,     \* the exit status of the process, -1 while it runs
    app_class,       \* which ImageReviewApp the window is
    app_processed_items, \* ImageReviewApp.processed_items
    current_index,   \* ImageReviewApp.current_index
    gray_image,      \* the grayscale image handed to the histogram equalizations
    equalized_image_result, \* what HW1's apply_histogram_equalization does with it
    equalized        \* what HW4's _equalize_single_channel does with it

psnrVars == <<original, restored, psnr>>

schemaVars == <<schema_args, results, raised, schema_pc>>

opVars == <<ctor_args, operator, degraded_image, output, warnings, calls>>

pipeVars == <<pc, call, image_uint8, inverse_image, wiener_image, stats,
              saved_files, figures, events>>

driverVars == <<image_names, pairs, driver_pc>>

workerVars == <<load_fails, outcomes, worker_pc, pair_index, processed_items,
                processing_error, scheduled, handled, written, exit_status>>

guiVars == <<app_class, app_processed_items, current_index>>

equalizationVars == <<gray_image, equalized_image_result, equalized>>

appVars == <<driverVars, workerVars, guiVars, equalizationVars>>

vars == <<original, restored, psnr, schema_args, results, raised, schema_pc,
          ctor_args, operator, degraded_image, output, warnings, calls,
          pc, call, image_uint8, inverse_image, wiener_image, stats,
          saved_files, figures, events,
          image_names, pairs, driver_pc,
          load_fails, outcomes, worker_pc, pair_index, processed_items,
          processing_error, scheduled, handled, written, exit_status,
          app_class, app_processed_items, current_index,
          gray_image, equalized_image_result, equalized>>

---------------------------------------------------------------------------
(* Bounds of the model *)

\* gray levels of the PSNR images are 255*i \div MaxLevelIndex, i = 0..MaxLevelIndex
MaxLevelIndex == 2

\* the sides of the images handed to compute_psnr
PsnrDims == {1, 2}

---------------------------------------------------------------------------
(* Arithmetic helpers *)

Abs(x) == IF x < 0 THEN -x ELSE x

Max(a, b) == IF a >= b THEN a ELSE b

Min(a, b) == IF a <= b THEN a ELSE b

\* ceiling of a / b for a >= 0, b > 0
CeilDiv(a, b) == (a + b - 1) \div b

RECURSIVE SumTo(_, _)
\* f[1] + ... + f[n]
SumTo(f, n) == IF n = 0 THEN 0 ELSE f[n] + SumTo(f, n - 1)

\* the function f itself (f @@ <<>> = f), evaluated once at every argument
\* rather than at each application
Evaluated(f) == f @@ <<>>

RECURSIVE Product(_)
\* the product of a tuple of numbers: numpy's size of a shape
Product(s) == IF Len(s) = 0 THEN 1 ELSE Head(s) * Product(Tail(s))

---------------------------------------------------------------------------
(* numpy arrays *)

NdArray(shape, dtype, data) ==
    [type |-> "ndarray", shape |-> shape, dtype |-> dtype, data |-> data]

\* a float64 array whose samples are rationals Rat(n, d); its item size of
\* 8 bytes sets it apart from the arrays of integers that NdArray builds
Float64Array(shape, data) ==
    [type |-> "ndarray", shape |-> shape, dtype |-> "float64", data |-> data, itemsize |-> 8]

\* a Python value that is no numpy array
PyList == [type |-> "list", shape |-> <<>>, dtype |-> "object", data |-> <<>>]

None == [kind |-> "None"]

\* the array of the given shape and dtype filled with one value
Full(shape, dtype, value) ==
    NdArray(shape, dtype, [p \in 1..Product(shape) |-> value])

ndim(a) == Len(a.shape)

size(a) == Product(a.shape)

\* every 2D array of the given dtype, sides and sample values
Arrays2D(dims, dtype, levels) ==
    UNION { { NdArray(<<r, c>>, dtype, d) : d \in [1..(r * c) -> levels] }
            : r \in dims, c \in dims }

\* the sample at 0-based (i, j) of a 2D array
At(a, i, j) == a.data[i * a.shape[2] + j + 1]

\* numpy broadcasting of two 2D shapes: sides must agree or be 1
BroadcastCompatible(s, t) ==
    /\ (s[1] = t[1] \/ s[1] = 1 \/ t[1] = 1)
    /\ (s[2] = t[2] \/ s[2] = 1 \/ t[2] = 1)

BroadcastShape(s, t) == <<Max(s[1], t[1]), Max(s[2], t[2])>>

\* the sample of `a` seen at (i, j) of the broadcast result
BroadcastAt(a, i, j) ==
    At(a, IF a.shape[1] = 1 THEN 0 ELSE i, IF a.shape[2] = 1 THEN 0 ELSE j)

---------------------------------------------------------------------------
(* Real and complex arithmetic of the filters                              *)
(*                                                                         *)
(* The spectrum of an integer image with sides 1, 2 or 3 is exact in       *)
(* Z[zeta], zeta = exp(2 pi i / 6): a complex number a + b*zeta is the     *)
(* pair <<a, b>>.  Filter coefficients (H, L and the responses built from  *)
(* them) are float64 in the code and fixed-point here: an integer count    *)
(* of 1/Scale.  exp and power are tabulated to 1/TableUnit at the          *)
(* arguments the bounded grids produce.                                    *)
(***************************************************************************)

\* filter coefficients are kept to 1/Scale
Scale == 100

TableUnit == 10000

\* a rational n / d
Rat(n, d) == [n |-> n, d |-> d]

\* a / b rounded to the nearest integer, ties to even (np.rint, and the
\* rounding of a float64 result), for b > 0
RoundHalfEven(a, b) ==
    LET q == a \div b
        r == a - q * b
    IN IF 2 * r < b THEN q
       ELSE IF 2 * r > b THEN q + 1
       ELSE IF q % 2 = 0 THEN q ELSE q + 1

\* the powers zeta^0 .. zeta^5
ZetaPowers == << <<1, 0>>, <<0, 1>>, <<-1, 1>>, <<-1, 0>>, <<0, -1>>, <<1, -1>> >>

Zeta(m) == ZetaPowers[(m % 6) + 1]

CxAdd(x, y) == <<x[1] + y[1], x[2] + y[2]>>

\* (a + b zeta)(c + d zeta) with zeta^2 = zeta - 1
CxMul(x, y) == <<x[1] * y[1] - x[2] * y[2], x[1] * y[2] + x[2] * y[1] + x[2] * y[2]>>

\* a complex number times a real one
CxScale(x, t) == <<x[1] * t, x[2] * t>>

\* twice the real part of a + b zeta (the real part of zeta is 1/2)
TwiceReal(x) == 2 * x[1] + x[2]

RECURSIVE CxSum(_, _)
\* f[0] + ... + f[n - 1]
CxSum(f, n) == IF n = 0 THEN <<0, 0>> ELSE CxAdd(f[n - 1], CxSum(f, n - 1))

\* the exponent of zeta in the DFT kernel exp(-2 pi i (u i / rows + v j / cols))
KernelExponent(rows, cols, u, i, v, j) ==
    (6 \div rows) * u * i + (6 \div cols) * v * j

\* np.fft.fft2 of a real rows x cols grid x (a function on 0 .. rows*cols - 1,
\* row-major)
fft2(x, rows, cols) ==
    Evaluated([q \in 0..(rows * cols - 1) |->
        CxSum([p \in 0..(rows * cols - 1) |->
                  CxScale(Zeta(-KernelExponent(rows, cols, q \div cols, p \div cols,
                                               (q % cols), (p % cols))),
                          x[p])],
              rows * cols)])

\* np.fft.ifft2 of a complex grid, without its division by rows * cols
ifft2_times_size(X, rows, cols) ==
    Evaluated([p \in 0..(rows * cols - 1) |->
        CxSum([q \in 0..(rows * cols - 1) |->
                  CxMul(Zeta(KernelExponent(rows, cols, q \div cols, p \div cols,
                                            q % cols, p % cols)),
                        X[q])],
              rows * cols)])

\* the grid with every axis rolled by the given number of places (np.roll)
Roll(X, rows, cols, row_shift, col_shift) ==
    Evaluated([p \in 0..(rows * cols - 1) |->
        X[(((p \div cols) - row_shift) % rows) * cols
          + (((p % cols) - col_shift) % cols)]])

\* np.fft.fftshift: every axis rolled forward by n // 2
fftshift(X, rows, cols) == Roll(X, rows, cols, rows \div 2, cols \div 2)

\* an un-shift that rolls forward once more, as fftshift does: the inverse of
\* the shift on even sides only
ifftshift_forward(X, rows, cols) == Roll(X, rows, cols, rows \div 2, cols \div 2)

\* np.fft.ifftshift: every axis rolled back by n // 2
ifftshift(X, rows, cols) == Roll(X, rows, cols, -(rows \div 2), -(cols \div 2))

\* 4 * (u^2 + v^2) at grid position (i, j) for u = j - cols / 2.0,
\* v = i - rows / 2.0
FourDistanceSquared(rows, cols, i, j) ==
    (2 * j - cols) * (2 * j - cols) + (2 * i - rows) * (2 * i - rows)

\* the system parameters k of the model, in the order of the table rows
KTable == << Rat(0, 1), Rat(1, 400), Rat(1, 1), Rat(100000, 1) >>

\* the arguments of the table columns: q > 0 stands for u^2 + v^2 = q / 4,
\* q = -e for u^2 + v^2 = 10^-e
DistanceKeys == <<-10, -6, 1, 2, 4, 5, 8, 9, 10, 13, 18>>

\* exp(-k * (u^2 + v^2)^(5/6)) in 1/TableUnit
DegradationTable ==
    << <<10000, 10000, 10000, 10000, 10000, 10000, 10000, 10000, 10000, 10000, 10000>>,
       <<10000, 10000, 9992, 9986, 9975, 9970, 9956, 9951, 9946, 9933, 9913>>,
       <<10000, 10000, 7298, 5705, 3679, 2999, 1683, 1401, 1170, 692, 301>>,
       <<9995, 3679, 0, 0, 0, 0, 0, 0, 0, 0, 0>> >>

\* the cutoff radii of the model, in the order of the table rows
CutoffTable == <<1, 50>>

\* the arguments 4 * distance^2 of the low-pass table columns
LowpassKeys == <<0, 1, 2, 4, 5, 8, 9, 10, 13, 18>>

\* exp(-distance^2 / (2 * cutoff_radius^2)) in 1/TableUnit
LowpassTable ==
    << <<10000, 8825, 7788, 6065, 5353, 3679, 3247, 2865, 1969, 1054>>,
       <<10000, 10000, 9999, 9998, 9998, 9996, 9996, 9995, 9994, 9991>> >>

IndexOf(seq, x) == CHOOSE i \in 1..Len(seq) : seq[i] = x

\* a table entry as a count of 1/Scale
ToScale(t) == RoundHalfEven(t * Scale, TableUnit)

\* np.maximum(distance_squared, epsilon) for epsilon = 10^-eps_exp, as a key
\* of the degradation table
ClampedDistanceKey(q4, eps_exp) ==
    IF q4 >= 4 \/ (q4 >= 1 /\ eps_exp >= 1) THEN q4
    ELSE IF eps_exp = 0 THEN 4
    ELSE -eps_exp

\* _compute_degradation_function of both operators:
\* H = exp(-k * max(u^2 + v^2, epsilon)^(5/6)) on the centred grid, with
\* epsilon = 10^-eps_exp
degradation_function(rows, cols, k, eps_exp) ==
    [p \in 0..(rows * cols - 1) |->
        ToScale(DegradationTable[IndexOf(KTable, k)]
                  [IndexOf(DistanceKeys,
                           ClampedDistanceKey(
                               FourDistanceSquared(rows, cols, p \div cols, p % cols),
                               eps_exp))])]

\* InverseFilterOperator._compute_lowpass_filter: the Gaussian taper
lowpass_filter(rows, cols, cutoff_radius) ==
    [p \in 0..(rows * cols - 1) |->
        ToScale(LowpassTable[IndexOf(CutoffTable, cutoff_radius)]
                  [IndexOf(LowpassKeys,
                           FourDistanceSquared(rows, cols, p \div cols, p % cols))])]

---------------------------------------------------------------------------
(* InverseFilterOperator and WienerFilterOperator: construction *)

\* a float given to a constructor as sign * 10^-exp (0 when sign = 0)
PowerOfTen(sign, exp) == [sign |-> sign, exp |-> exp]

\* a Python float or None, as signal_variance is
Float(value) == [kind |-> "float", value |-> value]

ValueError(message) == [kind |-> "ValueError", message |-> message]

\* a k check that lets negative values through by clamping them to 0
InverseFilterOperator_clamping(k, cutoff_radius, epsilon) ==
    IF cutoff_radius <= 0 THEN
        [obj |-> None, exc |-> ValueError("Cutoff radius must be positive")]
    ELSE IF epsilon.sign <= 0 THEN
        [obj |-> None, exc |-> ValueError("Epsilon must be positive")]
    ELSE
        [obj |-> [kind |-> "InverseFilterOperator",
                  k |-> IF k.n < 0 THEN Rat(0, 1) ELSE k,
                  cutoff_radius |-> cutoff_radius,
                  epsilon |-> epsilon],
         exc |-> None]

\* InverseFilterOperator.__init__
InverseFilterOperator(k, cutoff_radius, epsilon) ==
    IF k.n < 0 THEN
        [obj |-> None, exc |-> ValueError("System parameter k must be non-negative")]
    ELSE IF cutoff_radius <= 0 THEN
        [obj |-> None, exc |-> ValueError("Cutoff radius must be positive")]
    ELSE IF epsilon.sign <= 0 THEN
        [obj |-> None, exc |-> ValueError("Epsilon must be positive")]
    ELSE
        [obj |-> [kind |-> "InverseFilterOperator",
                  k |-> k,
                  cutoff_radius |-> cutoff_radius,
                  epsilon |-> epsilon],
         exc |-> None]

\* WienerFilterOperator.__init__: signal_variance is stored as given
WienerFilterOperator(k, noise_variance, signal_variance) ==
    IF k.n < 0 THEN
        [obj |-> None, exc |-> ValueError("System parameter k must be non-negative")]
    ELSE IF noise_variance < 0 THEN
        [obj |-> None, exc |-> ValueError("Noise variance must be non-negative")]
    ELSE
        [obj |-> [kind |-> "WienerFilterOperator",
                  k |-> k,
                  noise_variance |-> noise_variance,
                  signal_variance |-> signal_variance],
         exc |-> None]

---------------------------------------------------------------------------
(* The output normalizer both apply methods end with *)

RECURSIVE GCD(_, _)
GCD(a, b) == IF b = 0 THEN a ELSE GCD(b, a % b)

RECURSIVE CommonDenominator(_, _)
\* the least common multiple of the denominators of data[1 .. n]
CommonDenominator(data, n) ==
    IF n = 0 THEN 1
    ELSE LET rest == CommonDenominator(data, n - 1)
         IN (rest * data[n].d) \div GCD(rest, data[n].d)

\* The samples of a uint8 array are integers, those of a float64 array
\* rationals n / d.  np.asarray(image, dtype=np.float64) is kept as integer
\* numerators over the one denominator SampleDenominator(image).
SampleDenominator(a) ==
    IF a.dtype = "float64" THEN CommonDenominator(a.data, size(a)) ELSE 1

SampleNumerator(a, p) ==
    IF a.dtype = "float64"
    THEN a.data[p].n * (SampleDenominator(a) \div a.data[p].d)
    ELSE a.data[p]

\* image_float as a grid: the numerators, a function on 0 .. size - 1
Grid(a) == Evaluated([p \in 0..(size(a) - 1) |-> SampleNumerator(a, p + 1)])

\* the k-th smallest (k = 0 for the smallest) of the n values of x
KthSmallest(x, n, k) ==
    CHOOSE v \in { x[p] : p \in 0..(n - 1) } :
        /\ Cardinality({ p \in 0..(n - 1) : x[p] < v }) <= k
        /\ k < Cardinality({ p \in 0..(n - 1) : x[p] <= v })

\* 100 * np.percentile(x, q) with numpy's default linear interpolation
PercentileTimes100(x, n, q) ==
    LET lo == (q * (n - 1)) \div 100
        fraction == (q * (n - 1)) % 100
        hi == Min(lo + 1, n - 1)
    IN 100 * KthSmallest(x, n, lo)
         + fraction * (KthSmallest(x, n, hi) - KthSmallest(x, n, lo))

RECURSIVE MulDivMod(_, _, _)
\* <<quotient, remainder>> of m * a by b, taken bit by bit of m so that no
\* intermediate exceeds 3 * b
MulDivMod(m, a, b) ==
    IF m = 0 THEN <<0, 0>>
    ELSE LET half == MulDivMod(m \div 2, a, b)
             r == 2 * half[2] + (m % 2) * a
         IN <<2 * half[1] + (r \div b), r % b>>

\* np.rint(m * a / b) for 0 <= a <= b, b > 0
RintMulDiv(m, a, b) ==
    LET qr == MulDivMod(m, a, b)
    IN IF 2 * qr[2] < b THEN qr[1]
       ELSE IF 2 * qr[2] > b THEN qr[1] + 1
       ELSE IF qr[1] % 2 = 0 THEN qr[1] ELSE qr[1] + 1

\* np.clip(x, 0, 255)
Clip255(x) == Max(0, Min(255, x))

\* a fallback that fills with mid-gray instead of the input's mean
FallbackSampleMidGray(img) == 128

\* np.rint(np.mean(degraded_image)) clipped to [0, 255]: the sample of the
\* constant fallback image
FallbackSample(img) ==
    Clip255(RoundHalfEven(SumTo([p \in 1..size(img) |-> SampleNumerator(img, p)],
                                size(img)),
                          size(img) * SampleDenominator(img)))

\* a normalizer that casts without rounding: the fraction is cut off
NormalizedSample_truncating(x100, p_low, p_high) ==
    IF x100 <= p_low THEN 0
    ELSE IF x100 >= p_high THEN 255
    ELSE MulDivMod(255, x100 - p_low, p_high - p_low)[1]

\* np.rint(np.clip((x - p_low) / (p_high - p_low) * 255.0, 0, 255)) for one
\* sample, all three given times 100 over one denominator
NormalizedSample(x100, p_low, p_high) ==
    IF x100 <= p_low THEN 0
    ELSE IF x100 >= p_high THEN 255
    ELSE RintMulDiv(255, x100 - p_low, p_high - p_low)

\* The tail of apply.  restored_real is [finite, num]: the samples are
\* num[p] over one positive denominator, or not all finite (a NaN or an
\* infinity entered the spectrum, so np.percentile returns NaN and the
\* comparison p_high > p_low is False).
NormalizeOutput(restored_real, img, warning) ==
    LET n == size(img)
        p_low == PercentileTimes100(restored_real.num, n, 1)
        p_high == PercentileTimes100(restored_real.num, n, 99)
    IN IF restored_real.finite /\ p_high > p_low
       THEN [image |-> NdArray(img.shape, "uint8",
                               [p \in 1..n |->
                                   Clip255(NormalizedSample(
                                       100 * restored_real.num[p - 1], p_low, p_high))]),
             path |-> "normalized",
             warnings |-> <<>>]
       ELSE [image |-> Full(img.shape, "uint8", FallbackSample(img)),
             path |-> "fallback",
             warnings |-> <<warning>>]

---------------------------------------------------------------------------
(* InverseFilterOperator.apply *)

\* regularization parameter alpha = 0.01 = 1 / AlphaInv
AlphaInv == 100

\* H / (|H|^2 + alpha) for H = h / Scale, as a count of 1/Scale
regularized_inverse(h) ==
    RoundHalfEven(h * Scale * Scale * AlphaInv, h * h * AlphaInv + Scale * Scale)

\* regularized_inverse * lowpass + (1.0 - lowpass), as a count of 1/Scale
combined_filter(r, l) == RoundHalfEven(r * l + (Scale - l) * Scale, Scale)

\* the real part of ifft2(ifftshift(fftshift(fft2(image)) * filter)): the
\* numerators over the denominator 2 * rows * cols * Scale
RestoredReal(img, filter) ==
    LET rows == img.shape[1]
        cols == img.shape[2]
        frequency_shifted == fftshift(fft2(Grid(img), rows, cols), rows, cols)
        restored_frequency ==
            Evaluated([p \in 0..(rows * cols - 1) |->
                          CxScale(frequency_shifted[p], filter[p])])
        restored_shifted == ifftshift(restored_frequency, rows, cols)
        restored_spatial == ifft2_times_size(restored_shifted, rows, cols)
    IN Evaluated([p \in 0..(rows * cols - 1) |-> TwiceReal(restored_spatial[p])])

\* InverseFilterOperator._compute_degradation_function(rows, cols): the
\* squared distance is clamped with self.epsilon
InverseDegradation(op, rows, cols) ==
    Evaluated(degradation_function(rows, cols, op.k, op.epsilon.exp))

\* the combined frequency response of the inverse filter on a rows x cols grid
InverseFilterResponse(op, rows, cols) ==
    LET H == InverseDegradation(op, rows, cols)
        lowpass == lowpass_filter(rows, cols, op.cutoff_radius)
    IN Evaluated([p \in 0..(rows * cols - 1) |->
                     combined_filter(regularized_inverse(H[p]), lowpass[p])])

\* restored_real of InverseFilterOperator.apply: the filter is finite at
\* every frequency (|H|^2 + alpha >= alpha > 0)
InverseRestoredReal(op, img) ==
    [finite |-> TRUE,
     num |-> RestoredReal(img, InverseFilterResponse(op, img.shape[1], img.shape[2]))]

\* InverseFilterOperator.apply(degraded_image): [image, exc, warnings]
InverseApply(op, img) ==
    IF ndim(img) # 2 THEN
        [image |-> None, path |-> "raise", warnings |-> <<>>,
         exc |-> ValueError("Inverse filtering expects a 2D grayscale image")]
    ELSE
        LET restored_real == InverseRestoredReal(op, img)
            norm == NormalizeOutput(restored_real, img,
                                    "Inverse filter produced near-constant output")
        IN [image |-> norm.image, path |-> norm.path, warnings |-> norm.warnings,
            exc |-> None]

---------------------------------------------------------------------------
(* WienerFilterOperator.apply *)

\* N * sum(x^2) - sum(x)^2 = N^2 * np.var(image) for integer samples x, and
\* (N * SampleDenominator)^2 * np.var(image) for the numerators x in general
VarianceTimesSizeSquared(img) ==
    LET n == size(img)
        x == [p \in 1..n |-> SampleNumerator(img, p)]
        sum == SumTo(x, n)
        sumsq == SumTo([p \in 1..n |-> x[p] * x[p]], n)
    IN n * sumsq - sum * sum

\* an estimate that always takes the variance of the image, whatever signal
\* variance the operator was constructed with
estimate_nsr_image_only(op, img) ==
    LET nd == size(img) * SampleDenominator(img)
        v == VarianceTimesSizeSquared(img)
    IN IF v < CeilDiv(nd * nd, 1000000)
       THEN [exc |-> None, nsr |-> Rat(op.noise_variance, 1)]
       ELSE [exc |-> None, nsr |-> Rat(op.noise_variance * nd * nd, v)]

\* WienerFilterOperator._estimate_nsr: the ratio K as a rational with a
\* positive denominator, or the ZeroDivisionError of the float division
\* self.noise_variance / signal_var
estimate_nsr(op, img) ==
    IF op.signal_variance.kind # "None" THEN
        IF op.signal_variance.value = 0 THEN
            [exc |-> [kind |-> "ZeroDivisionError", message |-> "float division by zero"],
             nsr |-> Rat(0, 1)]
        ELSE IF op.signal_variance.value < 0 THEN
            [exc |-> None, nsr |-> Rat(-op.noise_variance, -op.signal_variance.value)]
        ELSE
            [exc |-> None, nsr |-> Rat(op.noise_variance, op.signal_variance.value)]
    ELSE
        LET nd == size(img) * SampleDenominator(img)
            v == VarianceTimesSizeSquared(img)
        IN IF v < CeilDiv(nd * nd, 1000000)    \* signal_var = v / nd^2 < 1e-6
           THEN [exc |-> None, nsr |-> Rat(op.noise_variance, 1)]
           ELSE [exc |-> None, nsr |-> Rat(op.noise_variance * nd * nd, v)]

\* the denominator of H* / (|H|^2 + K) for H = h / Scale, times
\* Scale^2 * K.d: zero exactly when |H|^2 + K = 0
WienerDenominator(h, K) == h * h * K.d + K.n * Scale * Scale

\* H* / (|H|^2 + K) as a count of 1/Scale, where the denominator is not zero
wiener_filter(h, K) ==
    LET den == WienerDenominator(h, K)
    IN IF den > 0
       THEN RoundHalfEven(h * Scale * Scale * K.d, den)
       ELSE -RoundHalfEven(h * Scale * Scale * K.d, -den)

\* WienerFilterOperator._compute_degradation_function(rows, cols): the
\* squared distance is clamped with the local epsilon = 1e-10
WienerDegradation(op, rows, cols) ==
    Evaluated(degradation_function(rows, cols, op.k, 10))

\* restored_real of WienerFilterOperator.apply for the ratio K: not finite
\* when |H|^2 + K = 0 at some frequency (the division gives inf or NaN)
WienerRestoredReal(op, img, K) ==
    LET rows == img.shape[1]
        cols == img.shape[2]
        H == WienerDegradation(op, rows, cols)
        finite == \A p \in 0..(rows * cols - 1) : WienerDenominator(H[p], K) # 0
        filter == Evaluated([p \in 0..(rows * cols - 1) |->
                                IF finite THEN wiener_filter(H[p], K) ELSE 0])
    IN [finite |-> finite, num |-> RestoredReal(img, filter)]

\* an apply that estimates the noise-to-signal ratio before it looks at the
\* number of dimensions
WienerApply_nsr_first(op, img) ==
    LET est == estimate_nsr(op, img)
    IN IF est.exc # None THEN
           [image |-> None, path |-> "raise", warnings |-> <<>>, exc |-> est.exc]
       ELSE IF ndim(img) # 2 THEN
           [image |-> None, path |-> "raise", warnings |-> <<>>,
            exc |-> ValueError("Wiener filtering expects a 2D grayscale image")]
       ELSE
           LET norm == NormalizeOutput(WienerRestoredReal(op, img, est.nsr), img,
                                       "Wiener filter produced near-constant output")
           IN [image |-> norm.image, path |-> norm.path,
               warnings |-> norm.warnings, exc |-> None]

\* WienerFilterOperator.apply(degraded_image): [image, exc, warnings]
WienerApply(op, img) ==
    IF ndim(img) # 2 THEN
        [image |-> None, path |-> "raise", warnings |-> <<>>,
         exc |-> ValueError("Wiener filtering expects a 2D grayscale image")]
    ELSE
        LET est == estimate_nsr(op, img)
            restored_real == WienerRestoredReal(op, img, est.nsr)
            norm == NormalizeOutput(restored_real, img,
                                    "Wiener filter produced near-constant output")
        IN IF est.exc # None
           THEN [image |-> None, path |-> "raise", warnings |-> <<>>, exc |-> est.exc]
           ELSE [image |-> norm.image, path |-> norm.path,
                 warnings |-> norm.warnings, exc |-> None]

---------------------------------------------------------------------------
(* compute_psnr, processing_pipeline.py *)

\* 1e-10 as 1 / (MseThresholdRootInv * MseThresholdRootInv)
MseThresholdRootInv == 100000

max_pixel == 255

PsnrLevels == { (255 * i) \div MaxLevelIndex : i \in 0..MaxLevelIndex }

PsnrImages == Arrays2D(PsnrDims, "uint8", PsnrLevels)

\* a difference that is not squared
SquaredErrorUnsquared(a, b) == a - b

\* (original_float - restored_float) ** 2 for one pair of samples
SquaredError(a, b) == (a - b) * (a - b)

\* the threshold written 1e10 instead of 1e-10: sumsq < n * 10^10
MseBelowThresholdSignSlip(sumsq, n) ==
    (sumsq \div MseThresholdRootInv) \div MseThresholdRootInv < n

\* mse < 1e-10 for mse = sumsq / n, exactly:
\* sumsq * 10^10 < n  <=>  sumsq < ceil(ceil(n / 10^5) / 10^5)
MseBelowThreshold(sumsq, n) ==
    sumsq < CeilDiv(CeilDiv(n, MseThresholdRootInv), MseThresholdRootInv)

\* compute_psnr(original, restored): a ValueError when the operands do not
\* broadcast, +inf when mse < 1e-10, else 10*log10(255^2 / mse), which is
\* kept as the exact ratio num / den = 255^2 / mse under the logarithm.
compute_psnr(orig, rest) ==
    IF ~BroadcastCompatible(orig.shape, rest.shape)
    THEN [kind |-> "ValueError"]
    ELSE
        LET shp == BroadcastShape(orig.shape, rest.shape)
            n == shp[1] * shp[2]
            sq == [p \in 1..n |->
                     LET i == (p - 1) \div shp[2]
                         j == (p - 1) % shp[2]
                     IN SquaredError(BroadcastAt(orig, i, j),
                                     BroadcastAt(rest, i, j))]
            sumsq == SumTo(sq, n)
        IN IF MseBelowThreshold(sumsq, n)
           THEN [kind |-> "inf"]
           ELSE [kind |-> "dB", num |-> max_pixel * max_pixel * n, den |-> sumsq]

\* the variables of the other components, at rest
SchemaIdle ==
    /\ schema_args = <<>>
    /\ results = None
    /\ raised = None
    /\ schema_pc = "start"

OperatorIdle ==
    /\ ctor_args = <<>>
    /\ operator = None
    /\ degraded_image = None
    /\ output = None
    /\ warnings = <<>>
    /\ calls = <<>>

PsnrIdle ==
    /\ original = None
    /\ restored = None
    /\ psnr = [kind |-> "pending"]

PipelineIdle ==
    /\ pc = "idle"
    /\ call = None
    /\ image_uint8 = None
    /\ inverse_image = None
    /\ wiener_image = None
    /\ stats = None
    /\ saved_files = {}
    /\ figures = 0
    /\ events = <<>>

DriverIdle ==
    /\ image_names = <<>>
    /\ pairs = <<>>
    /\ driver_pc = "start"

WorkerIdle ==
    /\ load_fails = FALSE
    /\ outcomes = <<>>
    /\ worker_pc = "not started"
    /\ pair_index = 0
    /\ processed_items = <<>>
    /\ processing_error = FALSE
    /\ scheduled = <<>>
    /\ handled = 0
    /\ written = <<>>
    /\ exit_status = -1

\* ImageReviewApp(processed_items=None, ...): an empty list, index 0
GuiIdle ==
    /\ app_class = "HW2"
    /\ app_processed_items = <<>>
    /\ current_index = 0

\* no image has been equalized
EqualizationIdle ==
    /\ gray_image = None
    /\ equalized_image_result = None
    /\ equalized = None

\* nothing of the application around the pipeline has run
AppIdle ==
    /\ DriverIdle
    /\ WorkerIdle
    /\ GuiIdle
    /\ EqualizationIdle

InitPsnr ==
    /\ original \in PsnrImages
    /\ restored \in PsnrImages
    /\ psnr = [kind |-> "pending"]
    /\ SchemaIdle
    /\ OperatorIdle
    /\ PipelineIdle
    /\ AppIdle

ComputePsnr ==
    /\ psnr.kind = "pending"
    /\ psnr' = compute_psnr(original, restored)
    /\ UNCHANGED <<original, restored>>
    /\ UNCHANGED schemaVars
    /\ UNCHANGED opVars
    /\ UNCHANGED pipeVars
    /\ UNCHANGED appVars

NextPsnr == ComputePsnr

SpecPsnr == InitPsnr /\ [][NextPsnr]_vars

\* the sum over all samples of (a - b)^2 for two arrays of one shape
SumSquaredDifference(a, b) ==
    SumTo([p \in 1..Len(a.data) |-> (a.data[p] - b.data[p]) * (a.data[p] - b.data[p])],
          Len(a.data))

PsnrReturned == psnr.kind \in {"inf", "dB"}

\* C6: for 8-bit images of identical shape compute_psnr is +inf when the two
\* are bit-identical, and otherwise the finite 10*log10(255^2 / MSE) with
\* MSE the mean of the squared differences.
C6_PsnrValue ==
    (psnr.kind # "pending" /\ original.shape = restored.shape) =>
        IF original.data = restored.data
        THEN psnr = [kind |-> "inf"]
        ELSE /\ psnr.kind = "dB"
             /\ psnr.num = 255 * 255 * Len(original.data)
             /\ psnr.den = SumSquaredDifference(original, restored)
             /\ psnr.den > 0

C6_Witness ==
    /\ psnr.kind = "inf"
    /\ original.shape = <<2, 2>>
    /\ original = restored
    /\ \E p \in 1..4 : original.data[p] = 255

\* C7: compute_psnr is symmetric: for images of identical shape the value
\* returned for (original, restored) is the value returned for (restored,
\* original).
C7_PsnrSymmetric ==
    (psnr.kind # "pending" /\ original.shape = restored.shape) =>
        psnr = compute_psnr(restored, original)

C7_Witness ==
    /\ psnr.kind = "dB"
    /\ original.shape = restored.shape
    /\ original.shape = <<2, 2>>
    /\ \E p, q \in 1..4 : /\ original.data[p] > restored.data[p]
                          /\ original.data[q] < restored.data[q]

\* C8: compute_psnr reports an error whenever the two images differ in
\* shape, and never returns a PSNR value for them.
C8_PsnrShapeMismatchIsError ==
    (psnr.kind # "pending" /\ original.shape # restored.shape) =>
        psnr.kind = "ValueError"

---------------------------------------------------------------------------
(* RestorationResultsSchema, restoration_results_schema.py *)

\* the values the schema is built from and assigned: arrays of 0 to 3
\* dimensions, an empty 2D array, both dtypes, and a value that is no array
SchemaShapes == { <<>>, <<2>>, <<0, 2>>, <<1, 2>>, <<2, 2>>, <<2, 2, 3>> }

SchemaValues ==
    { Full(shp, dt, 0) : shp \in SchemaShapes, dt \in {"uint8", "float64"} }
        \cup {PyList}

FieldNames == <<"inverse_filtered", "wiener_filtered">>

\* a validator that forgets the dtype check
validate_array_contents_no_dtype(value) ==
    IF value.type # "ndarray" THEN "TypeError"
    ELSE IF ndim(value) # 2 THEN "ValueError"
    ELSE IF size(value) = 0 THEN "ValueError"
    ELSE "ok"

\* validate_array_contents: the exception it raises for a value, "ok" when
\* it returns the value
validate_array_contents(value) ==
    IF value.type # "ndarray" THEN "TypeError"
    ELSE IF ndim(value) # 2 THEN "ValueError"
    ELSE IF size(value) = 0 THEN "ValueError"
    ELSE IF value.dtype # "uint8" THEN "ValueError"
    ELSE "ok"

\* ensure_matching_shapes: whether the model validator accepts the pair
ensure_matching_shapes(inv, wie) == wie.shape = inv.shape

\* RestorationResultsSchema(inverse_filtered=inv, wiener_filtered=wie): the
\* field validator runs on each field in declaration order; a TypeError
\* leaves at once, ValueErrors are collected into one ValidationError; the
\* model validator runs only when every field passed.
RestorationResultsSchema(inv, wie) ==
    LET v1 == validate_array_contents(inv)
        v2 == validate_array_contents(wie)
        bad == { i \in 1..2 : <<v1, v2>>[i] = "ValueError" }
    IN IF v1 = "TypeError" THEN
           [obj |-> None, exc |-> [kind |-> "TypeError", fields |-> {FieldNames[1]}]]
       ELSE IF v2 = "TypeError" THEN
           [obj |-> None, exc |-> [kind |-> "TypeError", fields |-> {FieldNames[2]}]]
       ELSE IF bad # {} THEN
           [obj |-> None,
            exc |-> [kind |-> "ValidationError",
                     fields |-> { FieldNames[i] : i \in bad }]]
       ELSE IF ~ensure_matching_shapes(inv, wie) THEN
           [obj |-> None,
            exc |-> [kind |-> "ValidationError", fields |-> {"shape mismatch"}]]
       ELSE
           [obj |-> [kind |-> "RestorationResultsSchema",
                     inverse_filtered |-> inv, wiener_filtered |-> wie],
            exc |-> None]

InitSchema ==
    /\ SchemaIdle
    /\ PsnrIdle
    /\ OperatorIdle
    /\ PipelineIdle
    /\ AppIdle

\* results = RestorationResultsSchema(inverse_filtered=inv, wiener_filtered=wie)
Construct(inv, wie) ==
    /\ schema_pc = "start"
    /\ LET r == RestorationResultsSchema(inv, wie)
       IN /\ results' = r.obj
          /\ raised' = r.exc
    /\ schema_args' = <<inv, wie>>
    /\ schema_pc' = "constructed"
    /\ UNCHANGED psnrVars
    /\ UNCHANGED opVars
    /\ UNCHANGED pipeVars
    /\ UNCHANGED appVars

\* results.inverse_filtered = value: the model is configured with
\* arbitrary_types_allowed only, so the assignment stores the value as given
SetInverseFiltered(value) ==
    /\ results.kind = "RestorationResultsSchema"
    /\ results' = [results EXCEPT !.inverse_filtered = value]
    /\ schema_pc' = "assigned"
    /\ UNCHANGED <<schema_args, raised>>
    /\ UNCHANGED psnrVars
    /\ UNCHANGED opVars
    /\ UNCHANGED pipeVars
    /\ UNCHANGED appVars

\* results.wiener_filtered = value
SetWienerFiltered(value) ==
    /\ results.kind = "RestorationResultsSchema"
    /\ results' = [results EXCEPT !.wiener_filtered = value]
    /\ schema_pc' = "assigned"
    /\ UNCHANGED <<schema_args, raised>>
    /\ UNCHANGED psnrVars
    /\ UNCHANGED opVars
    /\ UNCHANGED pipeVars
    /\ UNCHANGED appVars

NextSchema ==
    \/ \E inv \in SchemaValues, wie \in SchemaValues : Construct(inv, wie)
    \/ \E value \in SchemaValues : SetInverseFiltered(value)
    \/ \E value \in SchemaValues : SetWienerFiltered(value)

SpecSchema == InitSchema /\ [][NextSchema]_vars

\* a value that passes every check the schema documents
ValidImage(value) ==
    /\ value.type = "ndarray"
    /\ Len(value.shape) = 2
    /\ Product(value.shape) > 0
    /\ value.dtype = "uint8"

\* C3: building the results object from two images of different shapes, or
\* from a field that is not a 2D, non-empty, uint8 array, raises; an object is
\* returned only when both fields pass every check and the shapes agree.
C3_SchemaRejectsInvalid ==
    schema_pc = "constructed" =>
        LET inv == schema_args[1]
            wie == schema_args[2]
            allGood == /\ ValidImage(inv)
                       /\ ValidImage(wie)
                       /\ inv.shape = wie.shape
        IN /\ ~allGood => (results = None /\ raised # None)
           /\ allGood => /\ raised = None
                         /\ results.kind = "RestorationResultsSchema"
                         /\ results.inverse_filtered = inv
                         /\ results.wiener_filtered = wie

\* two valid images of different shapes are refused
C3_Witness ==
    /\ schema_pc = "constructed"
    /\ ValidImage(schema_args[1])
    /\ ValidImage(schema_args[2])
    /\ schema_args[1].shape = <<2, 2>>
    /\ schema_args[2].shape = <<1, 2>>
    /\ results = None
    /\ raised.kind = "ValidationError"

\* C4: a results object is immutable after construction, so in every
\* reachable state, attribute assignment included, both of its images are 2D,
\* non-empty, 8-bit and of identical shape.
C4_ResultsInvariant ==
    results.kind = "RestorationResultsSchema" =>
        /\ ValidImage(results.inverse_filtered)
        /\ ValidImage(results.wiener_filtered)
        /\ results.inverse_filtered.shape = results.wiener_filtered.shape

---------------------------------------------------------------------------
(* The operators as a state machine: construct one, apply it to an image *)

\* the samples of the images handed to apply are 0 .. MaxSample
MaxSample == 1

\* the shapes of the 2D images handed to apply
OperatorShapes ==
    { <<1, 1>>, <<1, 2>>, <<2, 1>>, <<2, 2>>, <<1, 3>>, <<3, 1>> }

\* images with an even and an odd side
OperatorWideImages ==
    { NdArray(<<2, 3>>, "uint8", <<0, 1, 0, 1, 1, 0>>),
      NdArray(<<2, 3>>, "uint8", <<0, 0, 1, 0, 1, 1>>),
      NdArray(<<3, 2>>, "uint8", <<0, 1, 1, 0, 0, 1>>),
      Full(<<2, 3>>, "uint8", 1) }

\* float64 images handed to apply: samples below 0, between integers, above 255
OperatorFloatImages ==
    { Float64Array(<<1, 3>>, <<Rat(-2, 1), Rat(0, 1), Rat(1, 1)>>),
      Float64Array(<<2, 2>>, <<Rat(0, 1), Rat(1, 2), Rat(3, 2), Rat(3, 1)>>),
      Float64Array(<<1, 1>>, <<Rat(300, 1)>>) }

OperatorImages ==
    UNION { { NdArray(shp, "uint8", d) : d \in [1..Product(shp) -> 0..MaxSample] }
            : shp \in OperatorShapes }
        \cup OperatorWideImages
        \cup OperatorFloatImages
        \cup { Full(<<2>>, "uint8", 1), Full(<<1, 2, 2>>, "uint8", 1) }

KValues == { Rat(-1, 1) } \cup { KTable[i] : i \in 1..Len(KTable) }

CutoffValues == { 0 } \cup { CutoffTable[i] : i \in 1..Len(CutoffTable) }

EpsilonValues ==
    { PowerOfTen(-1, 6), PowerOfTen(0, 0), PowerOfTen(1, 6), PowerOfTen(1, 0) }

NoiseVarianceValues == { -1, 0, 100 }

SignalVarianceValues == { None, Float(0), Float(100), Float(-100) }

InitOperators ==
    /\ OperatorIdle
    /\ SchemaIdle
    /\ PsnrIdle
    /\ PipelineIdle
    /\ AppIdle

\* one apply call as the caller sees it: the operator and the array handed
\* over, the same two objects when the call is over, and what came back.
\* Neither apply assigns to self or writes into an array it was given.
CallRecord(op, img, op_after, img_after, r) ==
    [operator |-> op, image |-> img, operator_after |-> op_after, image_after |-> img_after, output |-> r.image, exc |-> r.exc]

\* operator = InverseFilterOperator(k, cutoff_radius, epsilon)
ConstructInverse(k, cutoff_radius, epsilon) ==
    /\ ctor_args = <<>>
    /\ ctor_args' = <<"InverseFilterOperator", k, cutoff_radius, epsilon>>
    /\ LET r == InverseFilterOperator(k, cutoff_radius, epsilon)
       IN /\ operator' = r.obj
          /\ raised' = r.exc
    /\ UNCHANGED <<degraded_image, output, warnings, calls>>
    /\ UNCHANGED <<schema_args, results, schema_pc>>
    /\ UNCHANGED psnrVars
    /\ UNCHANGED pipeVars
    /\ UNCHANGED appVars

\* operator = WienerFilterOperator(k, noise_variance, signal_variance)
ConstructWiener(k, noise_variance, signal_variance) ==
    /\ ctor_args = <<>>
    /\ ctor_args' = <<"WienerFilterOperator", k, noise_variance, signal_variance>>
    /\ LET r == WienerFilterOperator(k, noise_variance, signal_variance)
       IN /\ operator' = r.obj
          /\ raised' = r.exc
    /\ UNCHANGED <<degraded_image, output, warnings, calls>>
    /\ UNCHANGED <<schema_args, results, schema_pc>>
    /\ UNCHANGED psnrVars
    /\ UNCHANGED pipeVars
    /\ UNCHANGED appVars

\* output = operator.apply(img) on an InverseFilterOperator
ApplyInverse(img) ==
    /\ operator.kind = "InverseFilterOperator"
    /\ degraded_image = None
    /\ degraded_image' = img
    /\ LET r == InverseApply(operator, img)
       IN /\ output' = r.image
          /\ raised' = r.exc
          /\ warnings' = warnings \o r.warnings
          /\ calls' = Append(calls, CallRecord(operator, img, operator, img, r))
    /\ UNCHANGED <<ctor_args, operator>>
    /\ UNCHANGED <<schema_args, results, schema_pc>>
    /\ UNCHANGED psnrVars
    /\ UNCHANGED pipeVars
    /\ UNCHANGED appVars

\* output = operator.apply(img) on a WienerFilterOperator
ApplyWiener(img) ==
    /\ operator.kind = "WienerFilterOperator"
    /\ degraded_image = None
    /\ degraded_image' = img
    /\ LET r == WienerApply(operator, img)
       IN /\ output' = r.image
          /\ raised' = r.exc
          /\ warnings' = warnings \o r.warnings
          /\ calls' = Append(calls, CallRecord(operator, img, operator, img, r))
    /\ UNCHANGED <<ctor_args, operator>>
    /\ UNCHANGED <<schema_args, results, schema_pc>>
    /\ UNCHANGED psnrVars
    /\ UNCHANGED pipeVars
    /\ UNCHANGED appVars

NextOperators ==
    \/ \E k \in KValues, cutoff_radius \in CutoffValues, epsilon \in EpsilonValues :
           ConstructInverse(k, cutoff_radius, epsilon)
    \/ \E k \in KValues, noise_variance \in NoiseVarianceValues,
          signal_variance \in SignalVarianceValues :
           ConstructWiener(k, noise_variance, signal_variance)
    \/ \E img \in OperatorImages : ApplyInverse(img)
    \/ \E img \in OperatorImages : ApplyWiener(img)

SpecOperators == InitOperators /\ [][NextOperators]_vars

\* apply has been called on a non-empty 2D image
AppliedTo2D ==
    /\ degraded_image # None
    /\ ndim(degraded_image) = 2
    /\ size(degraded_image) > 0

\* an 8-bit image of the given shape with every sample in 0 .. 255
IsUint8ImageOfShape(a, shape) ==
    /\ a # None
    /\ a.type = "ndarray"
    /\ a.dtype = "uint8"
    /\ a.shape = shape
    /\ \A p \in 1..Product(shape) : a.data[p] \in 0..255

\* C1: for every non-empty 2D input image and every parameter set the
\* constructors accept, apply of either operator returns (it does not raise)
\* an 8-bit image of the input's shape with every sample in [0, 255], on the
\* normalization path and on the fallback path alike.
C1_ApplyReturnsImage ==
    AppliedTo2D =>
        /\ raised = None
        /\ IsUint8ImageOfShape(output, degraded_image.shape)

\* the constructor arguments violate a documented precondition
InvalidParameters(args) ==
    IF args[1] = "InverseFilterOperator"
    THEN args[2].n < 0 \/ args[3] <= 0 \/ args[4].sign <= 0
    ELSE args[2].n < 0 \/ args[3] < 0

\* C2: construction fails fast.  When k < 0, cutoff_radius <= 0 or
\* epsilon <= 0 (inverse), or k < 0 or noise_variance < 0 (Wiener), the
\* constructor raises a ValueError and there is no operator object; an
\* operator that does exist holds a k that is not negative, so no offending
\* value was clamped into it.
C2_ConstructionFailsFast ==
    ctor_args # <<>> =>
        /\ InvalidParameters(ctor_args) =>
               /\ operator = None
               /\ raised.kind = "ValueError"
               /\ output = None
        /\ operator # None => operator.k = ctor_args[2]

\* a negative k was handed to the inverse constructor and rejected
C2_Witness ==
    /\ ctor_args = <<"InverseFilterOperator", Rat(-1, 1), 1, PowerOfTen(1, 6)>>
    /\ operator = None
    /\ raised.kind = "ValueError"

\* the restored real-valued field of the apply call of the current state
RestoredField ==
    IF operator.kind = "InverseFilterOperator"
    THEN InverseRestoredReal(operator, degraded_image)
    ELSE WienerRestoredReal(operator, degraded_image,
                            estimate_nsr(operator, degraded_image).nsr)

\* apply reached its normalizer on a finite field whose 99th percentile equals
\* its 1st
FlatField ==
    /\ AppliedTo2D
    /\ operator.kind = "WienerFilterOperator" =>
           estimate_nsr(operator, degraded_image).exc = None
    /\ RestoredField.finite
    /\ PercentileTimes100(RestoredField.num, size(degraded_image), 99)
         = PercentileTimes100(RestoredField.num, size(degraded_image), 1)

\* C5: when the 99th percentile of the restored field equals its 1st, apply
\* does not raise; it records a warning and returns a constant image of the
\* input's shape whose value is the mean of the degraded input, rounded to
\* a nearest integer and clipped to [0, 255].
C5_FlatFieldFallback ==
    FlatField =>
        /\ raised = None
        /\ Len(warnings) = 1
        /\ IsUint8ImageOfShape(output, degraded_image.shape)
        /\ LET n == size(degraded_image)
               nd == n * SampleDenominator(degraded_image)
               sum == SumTo([p \in 1..n |-> SampleNumerator(degraded_image, p)], n)
           IN \E rounded \in { sum \div nd, (sum \div nd) + 1 } :
                  /\ 2 * Abs(nd * rounded - sum) <= nd
                  /\ \A p \in 1..n : output.data[p] = Max(0, Min(255, rounded))

\* a Wiener filter with a degradation so strong that only the mean survives:
\* the field is flat although the image is not, and the fallback is its mean
C5_Witness ==
    /\ FlatField
    /\ operator.kind = "WienerFilterOperator"
    /\ degraded_image.shape = <<2, 2>>
    /\ degraded_image.data = <<0, 1, 1, 1>>
    /\ Len(warnings) = 1
    /\ output = Full(<<2, 2>>, "uint8", 1)

---------------------------------------------------------------------------
(* processing_pipeline.py: compute_restoration_outputs, process_image_pair *)

\* np.rint of one sample: a float64 sample is a rational, a uint8 sample an
\* integer
RintSample(a, p) ==
    IF a.dtype = "float64" THEN RoundHalfEven(a.data[p].n, a.data[p].d)
    ELSE a.data[p]

\* sanitize_to_uint8(image): rounded, clipped to [0, 255], cast to uint8
sanitize_to_uint8(image) ==
    NdArray(image.shape, "uint8",
            [p \in 1..size(image) |-> Clip255(RintSample(image, p))])

\* apply_inverse_filter: construct the operator, then apply it
apply_inverse_filter(img, k, cutoff_radius, epsilon) ==
    LET made == InverseFilterOperator(k, cutoff_radius, epsilon)
    IN IF made.exc # None
       THEN [image |-> None, path |-> "raise", warnings |-> <<>>, exc |-> made.exc]
       ELSE InverseApply(made.obj, img)

\* apply_wiener_filter: construct the operator, then apply it
apply_wiener_filter(img, k, noise_variance, signal_variance) ==
    LET made == WienerFilterOperator(k, noise_variance, signal_variance)
    IN IF made.exc # None
       THEN [image |-> None, path |-> "raise", warnings |-> <<>>, exc |-> made.exc]
       ELSE WienerApply(made.obj, img)

\* float(np.mean(image)) as the rational sum / size
mean_intensity(image) == Rat(SumTo(image.data, size(image)), size(image))

\* the dictionary collect_intensity_statistics returns
collect_intensity_statistics(res, original_image, degraded) ==
    [original_mean |-> mean_intensity(sanitize_to_uint8(original_image)),
     degraded_mean |-> mean_intensity(sanitize_to_uint8(degraded)),
     inverse_mean |-> mean_intensity(res.inverse_filtered),
     wiener_mean |-> mean_intensity(res.wiener_filtered)]

\* RestorationParameters
RestorationParameters(k, inverse_cutoff_radius, inverse_epsilon, noise_variance, signal_variance) ==
    [k |-> k,
     inverse_cutoff_radius |-> inverse_cutoff_radius,
     inverse_epsilon |-> inverse_epsilon,
     noise_variance |-> noise_variance,
     signal_variance |-> signal_variance]

\* the parameter sets of the model: the defaults, a degradation so strong
\* that the fallback is taken, and one violation of each precondition
PipelineParameters ==
    { RestorationParameters(Rat(1, 400), 50, PowerOfTen(1, 6), 100, None),
      RestorationParameters(Rat(100000, 1), 50, PowerOfTen(1, 6), 100, None),
      RestorationParameters(Rat(-1, 1), 50, PowerOfTen(1, 6), 100, None),
      RestorationParameters(Rat(1, 400), 0, PowerOfTen(1, 6), 100, None),
      RestorationParameters(Rat(1, 400), 50, PowerOfTen(0, 0), 100, None),
      RestorationParameters(Rat(1, 400), 50, PowerOfTen(1, 6), -1, None),
      RestorationParameters(Rat(1, 400), 50, PowerOfTen(1, 6), 100, Float(0)) }

\* the degraded images of the model: 8-bit ones, a float64 one with samples
\* below 0 and between integers, and a 1D one
PipelineDegradedImages ==
    { NdArray(<<1, 2>>, "uint8", <<0, 1>>),
      NdArray(<<2, 2>>, "uint8", <<0, 1, 1, 1>>),
      Full(<<2, 2>>, "uint8", 1),
      Float64Array(<<2, 2>>, <<Rat(-3, 1), Rat(5, 2), Rat(3, 2), Rat(1, 2)>>),
      NdArray(<<2, 3>>, "uint8", <<0, 1, 0, 1, 1, 0>>),
      Full(<<2>>, "uint8", 1) }

\* the original images of the model
PipelineOriginalImages ==
    { NdArray(<<1, 2>>, "uint8", <<0, 1>>),
      NdArray(<<2, 2>>, "uint8", <<0, 1, 1, 1>>),
      Float64Array(<<2, 2>>, <<Rat(0, 1), Rat(1, 2), Rat(256, 1), Rat(1, 1)>>),
      NdArray(<<2, 3>>, "uint8", <<0, 1, 0, 1, 1, 0>>) }

\* a file written by loader.save_image_array_to_file
SavedFile(suffix, image) == [name |-> suffix, image |-> image]

InitPipeline ==
    /\ PipelineIdle
    /\ AppIdle
    /\ SchemaIdle
    /\ OperatorIdle
    /\ PsnrIdle

\* the variables of the other components the pipeline leaves alone
PipelineFrame ==
    /\ UNCHANGED appVars
    /\ UNCHANGED <<schema_args, schema_pc>>
    /\ UNCHANGED <<ctor_args, operator, degraded_image, output, calls>>
    /\ UNCHANGED psnrVars

\* process_image_pair(original_image, degraded_image, params, ..., visualize,
\* save) is called
ProcessImagePair(original_image, degraded, params, visualize, save) ==
    /\ pc = "idle"
    /\ call' = [original_image |-> original_image,
                degraded_image |-> degraded,
                params |-> params,
                visualize |-> visualize,
                save |-> save]
    /\ pc' = "sanitize"
    /\ UNCHANGED <<image_uint8, inverse_image, wiener_image, stats,
                   saved_files, figures, events>>
    /\ UNCHANGED <<results, raised, warnings>>
    /\ PipelineFrame

\* image_uint8 = sanitize_to_uint8(degraded_image)
SanitizeDegraded ==
    /\ pc = "sanitize"
    /\ events' = Append(events, "sanitize")
    /\ image_uint8' = sanitize_to_uint8(call.degraded_image)
    /\ pc' = "inverse"
    /\ UNCHANGED <<call, inverse_image, wiener_image, stats, saved_files, figures>>
    /\ UNCHANGED <<results, raised, warnings>>
    /\ PipelineFrame

\* inverse_image = apply_inverse_filter(image_uint8, ...): an exception leaves
\* compute_restoration_outputs and process_image_pair at once
ApplyInverseFilter ==
    /\ pc = "inverse"
    /\ events' = Append(events, "inverse")
    /\ LET r == apply_inverse_filter(image_uint8, call.params.k,
                                     call.params.inverse_cutoff_radius,
                                     call.params.inverse_epsilon)
       IN IF r.exc # None
          THEN /\ raised' = r.exc
               /\ pc' = "raised"
               /\ UNCHANGED <<inverse_image, warnings>>
          ELSE /\ inverse_image' = r.image
               /\ warnings' = warnings \o r.warnings
               /\ pc' = "wiener"
               /\ UNCHANGED raised
    /\ UNCHANGED <<call, image_uint8, wiener_image, stats, saved_files, figures>>
    /\ UNCHANGED results
    /\ PipelineFrame

\* a Wiener step that catches the operator's exception and carries on with
\* the sanitized input in place of the restored image
ApplyWienerFilter_catching ==
    /\ pc = "wiener"
    /\ events' = Append(events, "wiener")
    /\ LET r == apply_wiener_filter(image_uint8, call.params.k,
                                    call.params.noise_variance,
                                    call.params.signal_variance)
       IN /\ wiener_image' = IF r.exc # None THEN image_uint8 ELSE r.image
          /\ warnings' = warnings \o r.warnings
          /\ pc' = "package"
          /\ UNCHANGED raised
    /\ UNCHANGED <<call, image_uint8, inverse_image, stats, saved_files, figures>>
    /\ UNCHANGED results
    /\ PipelineFrame

\* wiener_image = apply_wiener_filter(image_uint8, ...)
ApplyWienerFilter ==
    /\ pc = "wiener"
    /\ events' = Append(events, "wiener")
    /\ LET r == apply_wiener_filter(image_uint8, call.params.k,
                                    call.params.noise_variance,
                                    call.params.signal_variance)
       IN IF r.exc # None
          THEN /\ raised' = r.exc
               /\ pc' = "raised"
               /\ UNCHANGED <<wiener_image, warnings>>
          ELSE /\ wiener_image' = r.image
               /\ warnings' = warnings \o r.warnings
               /\ pc' = "package"
               /\ UNCHANGED raised
    /\ UNCHANGED <<call, image_uint8, inverse_image, stats, saved_files, figures>>
    /\ UNCHANGED results
    /\ PipelineFrame

\* results = RestorationResultsSchema(inverse_filtered=inverse_image,
\* wiener_filtered=wiener_image); return results
PackageResults ==
    /\ pc = "package"
    /\ events' = Append(events, "package")
    /\ LET r == RestorationResultsSchema(inverse_image, wiener_image)
       IN IF r.exc # None
          THEN /\ raised' = r.exc
               /\ pc' = "raised"
               /\ UNCHANGED results
          ELSE /\ results' = r.obj
               /\ pc' = "statistics"
               /\ UNCHANGED raised
    /\ UNCHANGED <<call, image_uint8, inverse_image, wiener_image, stats,
                   saved_files, figures>>
    /\ UNCHANGED warnings
    /\ PipelineFrame

\* stats = collect_intensity_statistics(results, original_image, degraded_image)
CollectIntensityStatistics ==
    /\ pc = "statistics"
    /\ events' = Append(events, "statistics")
    /\ stats' = collect_intensity_statistics(results, call.original_image,
                                             call.degraded_image)
    /\ pc' = "psnr"
    /\ UNCHANGED <<call, image_uint8, inverse_image, wiener_image,
                   saved_files, figures>>
    /\ UNCHANGED <<results, raised, warnings>>
    /\ PipelineFrame

\* psnr_inverse and psnr_wiener against sanitize_to_uint8(original_image),
\* stored in stats; the ValueError of operands that do not broadcast leaves
\* process_image_pair
ComputePsnrValues ==
    /\ pc = "psnr"
    /\ events' = Append(events, "psnr")
    /\ LET original_uint8 == sanitize_to_uint8(call.original_image)
           psnr_inverse == compute_psnr(original_uint8, results.inverse_filtered)
           psnr_wiener == compute_psnr(original_uint8, results.wiener_filtered)
       IN IF psnr_inverse.kind = "ValueError"
          THEN /\ raised' = psnr_inverse
               /\ pc' = "raised"
               /\ UNCHANGED stats
          ELSE IF psnr_wiener.kind = "ValueError"
          THEN /\ raised' = psnr_wiener
               /\ pc' = "raised"
               /\ UNCHANGED stats
          ELSE /\ stats' = stats @@ [psnr_inverse |-> psnr_inverse,
                                     psnr_wiener |-> psnr_wiener]
               /\ pc' = "save"
               /\ UNCHANGED raised
    /\ UNCHANGED <<call, image_uint8, inverse_image, wiener_image,
                   saved_files, figures>>
    /\ UNCHANGED <<results, warnings>>
    /\ PipelineFrame

\* a save that runs as soon as the results object exists, before the
\* statistics and the PSNR values
SaveResults_early ==
    /\ pc = "statistics"
    /\ "save" \notin { events[i] : i \in 1..Len(events) }
    /\ events' = Append(events, "save")
    /\ saved_files' = saved_files
                        \cup { SavedFile("_restored_inverse.bmp", results.inverse_filtered),
                               SavedFile("_restored_wiener.bmp", results.wiener_filtered) }
    /\ UNCHANGED <<pc, call, image_uint8, inverse_image, wiener_image, stats, figures>>
    /\ UNCHANGED <<results, raised, warnings>>
    /\ PipelineFrame

\* if save: save_results(f'{base_name}_restored', results, loader)
SaveResults ==
    /\ pc = "save"
    /\ IF call.save
       THEN /\ events' = Append(events, "save")
            /\ saved_files' = saved_files
                                \cup { SavedFile("_restored_inverse.bmp",
                                                 results.inverse_filtered),
                                       SavedFile("_restored_wiener.bmp",
                                                 results.wiener_filtered) }
       ELSE UNCHANGED <<events, saved_files>>
    /\ pc' = "visualize"
    /\ UNCHANGED <<call, image_uint8, inverse_image, wiener_image, stats, figures>>
    /\ UNCHANGED <<results, raised, warnings>>
    /\ PipelineFrame

\* if visualize: visualize_results(...); return results, stats
VisualizeResults ==
    /\ pc = "visualize"
    /\ IF call.visualize
       THEN /\ events' = Append(events, "visualize")
            /\ figures' = figures + 1
       ELSE UNCHANGED <<events, figures>>
    /\ pc' = "returned"
    /\ UNCHANGED <<call, image_uint8, inverse_image, wiener_image, stats, saved_files>>
    /\ UNCHANGED <<results, raised, warnings>>
    /\ PipelineFrame

NextPipeline ==
    \/ \E original_image \in PipelineOriginalImages,
          degraded \in PipelineDegradedImages,
          params \in PipelineParameters,
          visualize \in BOOLEAN, save \in BOOLEAN :
           ProcessImagePair(original_image, degraded, params, visualize, save)
    \/ SanitizeDegraded
    \/ ApplyInverseFilter
    \/ ApplyWienerFilter
    \/ PackageResults
    \/ CollectIntensityStatistics
    \/ ComputePsnrValues
    \/ SaveResults
    \/ VisualizeResults

SpecPipeline == InitPipeline /\ [][NextPipeline]_vars

\* the steps of one call in the order the contract gives them; the last two
\* are optional
StepOrder ==
    <<"sanitize", "inverse", "wiener", "package", "statistics", "psnr",
      "save", "visualize">>

Rank(step) == IndexOf(StepOrder, step)

\* the number of steps every complete call goes through: up to the PSNR
MandatorySteps == Rank("psnr")

Entered(step) == \E i \in 1..Len(events) : events[i] = step

\* C9: one image pair is processed in a fixed order: sanitize, inverse
\* filter, Wiener filter, packaging into the results object, intensity
\* statistics, PSNR, and only then save and visualization.  Every step is
\* entered after all the steps before it, and finds what they produced.
C9_FixedOrder ==
    /\ \A i, j \in 1..Len(events) : i < j => Rank(events[i]) < Rank(events[j])
    /\ \A i \in 1..Len(events) :
           IF Rank(events[i]) <= MandatorySteps
           THEN Rank(events[i]) = i
           ELSE /\ i > MandatorySteps
                /\ SubSeq(events, 1, MandatorySteps) = SubSeq(StepOrder, 1, MandatorySteps)
    /\ Entered("inverse") => image_uint8 # None /\ image_uint8.dtype = "uint8"
    /\ Entered("wiener") => inverse_image # None
    /\ Entered("package") => wiener_image # None
    /\ Entered("statistics") => results.kind = "RestorationResultsSchema"
    /\ Entered("psnr") => stats # None
    /\ Entered("save") \/ Entered("visualize") =>
           /\ results.kind = "RestorationResultsSchema"
           /\ {"inverse_mean", "wiener_mean", "psnr_inverse", "psnr_wiener"}
                  \subseteq DOMAIN stats

\* a call that went through every step, saved both images and drew the figure
C9_Witness ==
    /\ pc = "returned"
    /\ events = StepOrder
    /\ Cardinality(saved_files) = 2
    /\ figures = 1

\* what the two operators do on the arguments of the current call
InverseOutcome ==
    apply_inverse_filter(image_uint8, call.params.k,
                         call.params.inverse_cutoff_radius,
                         call.params.inverse_epsilon)

WienerOutcome ==
    apply_wiener_filter(image_uint8, call.params.k,
                        call.params.noise_variance,
                        call.params.signal_variance)

\* the call ended with the exception exc raised in the given step, and
\* produced nothing
PropagatedFrom(step, exc) ==
    /\ pc = "raised"
    /\ raised = exc
    /\ events[Len(events)] = step
    /\ results = None
    /\ stats = None
    /\ saved_files = {}
    /\ figures = 0

\* C10: the pipeline retries nothing and catches nothing.  Each operator is
\* invoked at most once per call, and an exception raised by either operator
\* or by the construction of the results object reaches the caller as raised,
\* with no results object, statistics, saved file or figure.
C10_NoRetryNoCatch ==
    /\ \A step \in {"inverse", "wiener"} :
           Cardinality({ i \in 1..Len(events) : events[i] = step }) <= 1
    /\ Entered("inverse") /\ InverseOutcome.exc # None =>
           PropagatedFrom("inverse", InverseOutcome.exc)
    /\ Entered("wiener") /\ WienerOutcome.exc # None =>
           PropagatedFrom("wiener", WienerOutcome.exc)
    /\ Entered("package") /\ RestorationResultsSchema(inverse_image, wiener_image).exc # None =>
           PropagatedFrom("package",
                          RestorationResultsSchema(inverse_image, wiener_image).exc)

\* the Wiener constructor rejected noise_variance after the inverse filter
\* had returned its image: the ValueError ended the call
C10_Witness ==
    /\ pc = "raised"
    /\ events = <<"sanitize", "inverse", "wiener">>
    /\ call.params.noise_variance < 0
    /\ inverse_image # None
    /\ raised = ValueError("Noise variance must be non-negative")
    /\ results = None
    /\ stats = None

\* one of the values of the parameter set violates its precondition
InvalidRestorationParameters(params) ==
    \/ params.k.n < 0
    \/ params.inverse_cutoff_radius <= 0
    \/ params.inverse_epsilon.sign <= 0
    \/ params.noise_variance < 0

\* an operator has transformed, filtered and normalized the image of this call
FilteringPerformed == inverse_image # None \/ wiener_image # None

\* C11: a configuration error is raised before any computation.  When
\* compute_restoration_outputs is called with a parameter set in which a
\* value is invalid, neither operator has filtered anything, at any point of
\* the call.
C11_ConfigErrorBeforeFiltering ==
    (call # None /\ InvalidRestorationParameters(call.params)) => ~FilteringPerformed

\* the operator the constructor call of this state returned
ConstructedOperator ==
    IF ctor_args[1] = "InverseFilterOperator"
    THEN InverseFilterOperator(ctor_args[2], ctor_args[3], ctor_args[4]).obj
    ELSE WienerFilterOperator(ctor_args[2], ctor_args[3], ctor_args[4]).obj

\* apply has been called on an array that is not 2D
AppliedToNon2D == degraded_image # None /\ ndim(degraded_image) # 2

\* C12: apply of either operator on an input that is not a 2D grid raises the
\* shape error at once: it is the ValueError of the dimension test whatever
\* the parameters are, nothing was computed (no image, no warning), and the
\* operator still holds the parameters it was constructed with.
C12_Non2DRaisesAtOnce ==
    AppliedToNon2D =>
        /\ raised \in { ValueError("Inverse filtering expects a 2D grayscale image"),
                        ValueError("Wiener filtering expects a 2D grayscale image") }
        /\ output = None
        /\ warnings = <<>>
        /\ operator = ConstructedOperator

\* a Wiener operator whose NSR cannot be computed is handed a 3D array: the
\* shape error comes first
C12_Witness ==
    /\ AppliedToNon2D
    /\ operator.kind = "WienerFilterOperator"
    /\ operator.signal_variance = Float(0)
    /\ degraded_image.shape = <<1, 2, 2>>
    /\ raised = ValueError("Wiener filtering expects a 2D grayscale image")
    /\ output = None

\* what apply of the operator of this state returns for an image
ApplyOf(op, img) ==
    IF op.kind = "InverseFilterOperator" THEN InverseApply(op, img)
    ELSE WienerApply(op, img)

\* C13: each operator sanitizes its input to 8-bit before filtering: for
\* every 2D numeric input I, apply(I) ends as apply(sanitize_to_uint8(I))
\* does, with the same image.
C13_ApplySanitizesInput ==
    AppliedTo2D =>
        LET sanitized == ApplyOf(operator, sanitize_to_uint8(degraded_image))
        IN /\ raised = sanitized.exc
           /\ output = sanitized.image

\* C14: the degradation function is a pure function of the shape and k only.
\* The H grid an inverse operator computes for an image equals, at every
\* position, the H grid the Wiener operator computes for the same shape and
\* k, whatever the inverse operator's epsilon is.
C14_DegradationSameInBoth ==
    (AppliedTo2D /\ operator.kind = "InverseFilterOperator") =>
        InverseDegradation(operator, degraded_image.shape[1], degraded_image.shape[2])
            = WienerDegradation(operator, degraded_image.shape[1], degraded_image.shape[2])

\* the grid position (0-based, row-major) to which fftshift moves the
\* zero-frequency component, which fft2 leaves at position 0
ZeroFrequencyPosition(rows, cols) ==
    CHOOSE p \in 0..(rows * cols - 1) :
        fftshift([q \in 0..(rows * cols - 1) |-> IF q = 0 THEN 1 ELSE 0], rows, cols)[p] = 1

\* C15: the centred layout of the transform matches the coordinates of the
\* degradation model for every shape: the position the shift moves the
\* zero-frequency component to is the position where (u, v) = (0, 0).
C15_ZeroFrequencyAtOrigin ==
    AppliedTo2D =>
        LET rows == degraded_image.shape[1]
            cols == degraded_image.shape[2]
            p == ZeroFrequencyPosition(rows, cols)
        IN FourDistanceSquared(rows, cols, p \div cols, p % cols) = 0

\* the H grid the operator of this state computes for a rows x cols image
DegradationOf(op, rows, cols) ==
    IF op.kind = "InverseFilterOperator" THEN InverseDegradation(op, rows, cols)
    ELSE WienerDegradation(op, rows, cols)

\* C16: H(0, 0) = 1.0 for any k >= 0: at the zero-frequency position of the
\* grid the degradation function is exactly 1, in both operators and for
\* every accepted epsilon.
C16_UnitGainAtZeroFrequency ==
    AppliedTo2D =>
        LET rows == degraded_image.shape[1]
            cols == degraded_image.shape[2]
        IN DegradationOf(operator, rows, cols)[ZeroFrequencyPosition(rows, cols)] = Scale

\* the filter that multiplies every frequency by 1.0
IdentityFilter(rows, cols) == [p \in 0..(rows * cols - 1) |-> Scale]

\* C17: round trip.  For a real 2D grid of any shape, even or odd sides, the
\* forward transform (fft2, then fftshift) followed by the inverse transform
\* (ifftshift, ifft2, real part) with an identity filter reproduces the grid
\* at every sample, and ifftshift undoes fftshift at every index of the
\* spectrum.
C17_RoundTrip ==
    AppliedTo2D =>
        LET rows == degraded_image.shape[1]
            cols == degraded_image.shape[2]
            image_float == Grid(degraded_image)
            spectrum == fft2(image_float, rows, cols)
            back == RestoredReal(degraded_image, IdentityFilter(rows, cols))
        IN /\ \A p \in 0..(rows * cols - 1) :
                  back[p] = 2 * rows * cols * Scale * image_float[p]
           /\ ifftshift(fftshift(spectrum, rows, cols), rows, cols) = spectrum

\* a grid with an even and an odd side and samples that differ went through
\* the transforms
C17_Witness ==
    /\ AppliedTo2D
    /\ degraded_image = NdArray(<<2, 3>>, "uint8", <<0, 1, 0, 1, 1, 0>>)
    /\ raised = None
    /\ RestoredReal(degraded_image, IdentityFilter(2, 3))
           = [p \in 0..5 |-> 2 * 6 * Scale * degraded_image.data[p + 1]]

---------------------------------------------------------------------------
(* C18: how the Wiener operator resolves its noise-to-signal ratio *)

\* sum over the samples of (N * x - sum(x))^2, which is
\* N^3 * SampleDenominator^2 times the mean squared deviation from the mean
DeviationSum(img) ==
    LET n == size(img)
        total == SumTo([p \in 1..n |-> SampleNumerator(img, p)], n)
    IN SumTo([p \in 1..n |-> (n * SampleNumerator(img, p) - total) * (n * SampleNumerator(img, p) - total)], n)

\* the unit of DeviationSum: N^3 * SampleDenominator^2
DeviationUnit(img) ==
    size(img) * size(img) * size(img) * SampleDenominator(img) * SampleDenominator(img)

\* the variance of the intensities is below 1e-6
NegligibleVariance(img) ==
    DeviationSum(img) < CeilDiv(DeviationUnit(img), 1000000)

\* the ratio the operator of the current state has to use for the image of the
\* current state: noise_variance over the supplied signal variance, or over
\* the variance of the image, or over 1.0 when that variance is negligible
ResolvedNsr ==
    IF operator.signal_variance.kind # "None" THEN
        IF operator.signal_variance.value > 0
        THEN Rat(operator.noise_variance, operator.signal_variance.value)
        ELSE Rat(-operator.noise_variance, -operator.signal_variance.value)
    ELSE IF NegligibleVariance(degraded_image) THEN
        Rat(operator.noise_variance, 1)
    ELSE
        Rat(operator.noise_variance * DeviationUnit(degraded_image), DeviationSum(degraded_image))

\* the Wiener operator of the current state has been applied to a 2-D image
WienerAppliedTo2D ==
    /\ AppliedTo2D
    /\ operator.kind = "WienerFilterOperator"

\* C18: a Wiener apply on a 2-D image restores with the ratio
\* noise_variance / signal_variance when a signal variance was supplied, and
\* otherwise with noise_variance over the variance of the image's intensities,
\* that variance replaced by 1.0 when it is below 1e-6; a supplied signal
\* variance of zero has no ratio, and the call raises on the division
C18_NsrResolution ==
    WienerAppliedTo2D =>
        IF operator.signal_variance.kind # "None" /\ operator.signal_variance.value = 0
        THEN /\ output = None
             /\ raised.kind = "ZeroDivisionError"
        ELSE /\ raised = None
             /\ output = NormalizeOutput(WienerRestoredReal(operator, degraded_image, ResolvedNsr), degraded_image, "Wiener filter produced near-constant output").image

\* a Wiener operator constructed with signal_variance = 100 restored an image
\* whose own variance is 0.25, and the stretch path produced the output
C18_Witness ==
    /\ WienerAppliedTo2D
    /\ operator.signal_variance = Float(100)
    /\ operator.noise_variance = 100
    /\ ~NegligibleVariance(degraded_image)
    /\ DeviationSum(degraded_image) * 4 = DeviationUnit(degraded_image)
    /\ raised = None
    /\ \E p, q \in 1..size(degraded_image) : output.data[p] # output.data[q]

---------------------------------------------------------------------------
(* C19: a uniform image is restored to itself *)

\* every sample of the 8-bit image equals its first sample
UniformImage(img) ==
    /\ img.dtype = "uint8"
    /\ \A p \in 1..size(img) : img.data[p] = img.data[1]

\* C19: for a uniform 2-D input image, all samples equal to one value c, the
\* operator returns a uniform image of the same shape whose samples are c
C19_UniformStaysUniform ==
    (AppliedTo2D /\ UniformImage(degraded_image)) =>
        /\ raised = None
        /\ output = Full(degraded_image.shape, "uint8", degraded_image.data[1])

---------------------------------------------------------------------------
(* A caller that keeps using the operators: it constructs operators and     *)
(* applies the one it holds to one image after another                      *)

\* the number of apply calls of one behaviour
MaxCalls == 3

\* the caller's images: a textured 8-bit image, a float64 image
\* (np.asarray(..., dtype=np.float64) returns that very array, not a copy),
\* a uniform image and an array that is not 2-D
ReuseImages ==
    { NdArray(<<2, 2>>, "uint8", <<0, 1, 1, 1>>),
      Float64Array(<<2, 2>>, <<Rat(0, 1), Rat(1, 2), Rat(3, 2), Rat(3, 1)>>),
      Full(<<2, 2>>, "uint8", 1),
      Full(<<2>>, "uint8", 1) }

InitReuse ==
    /\ OperatorIdle
    /\ SchemaIdle
    /\ PsnrIdle
    /\ PipelineIdle
    /\ AppIdle

\* operator = InverseFilterOperator(k, cutoff_radius, epsilon), at any time:
\* a constructor that raises leaves the caller with the operator it had
NewInverseOperator(k, cutoff_radius, epsilon) ==
    /\ Len(calls) < MaxCalls
    /\ ctor_args' = <<"InverseFilterOperator", k, cutoff_radius, epsilon>>
    /\ LET r == InverseFilterOperator(k, cutoff_radius, epsilon)
       IN /\ operator' = IF r.exc = None THEN r.obj ELSE operator
          /\ raised' = r.exc
    /\ UNCHANGED <<degraded_image, output, warnings, calls>>
    /\ UNCHANGED <<schema_args, results, schema_pc>>
    /\ UNCHANGED psnrVars
    /\ UNCHANGED pipeVars
    /\ UNCHANGED appVars

\* operator = WienerFilterOperator(k, noise_variance, signal_variance), at any
\* time
NewWienerOperator(k, noise_variance, signal_variance) ==
    /\ Len(calls) < MaxCalls
    /\ ctor_args' = <<"WienerFilterOperator", k, noise_variance, signal_variance>>
    /\ LET r == WienerFilterOperator(k, noise_variance, signal_variance)
       IN /\ operator' = IF r.exc = None THEN r.obj ELSE operator
          /\ raised' = r.exc
    /\ UNCHANGED <<degraded_image, output, warnings, calls>>
    /\ UNCHANGED <<schema_args, results, schema_pc>>
    /\ UNCHANGED psnrVars
    /\ UNCHANGED pipeVars
    /\ UNCHANGED appVars

\* an apply that normalizes in the array it was handed: the caller's image
\* holds the result afterwards
ApplyAgain_in_place(img) ==
    /\ operator # None
    /\ Len(calls) < MaxCalls
    /\ LET r == ApplyOf(operator, img)
           after == IF r.exc = None THEN r.image ELSE img
       IN /\ degraded_image' = after
          /\ output' = r.image
          /\ raised' = r.exc
          /\ warnings' = warnings \o r.warnings
          /\ calls' = Append(calls, CallRecord(operator, img, operator, after, r))
    /\ UNCHANGED <<ctor_args, operator>>
    /\ UNCHANGED <<schema_args, results, schema_pc>>
    /\ UNCHANGED psnrVars
    /\ UNCHANGED pipeVars
    /\ UNCHANGED appVars

\* output = operator.apply(img) on whichever operator the caller holds
ApplyAgain(img) ==
    /\ operator # None
    /\ Len(calls) < MaxCalls
    /\ degraded_image' = img
    /\ LET r == ApplyOf(operator, img)
       IN /\ output' = r.image
          /\ raised' = r.exc
          /\ warnings' = warnings \o r.warnings
          /\ calls' = Append(calls, CallRecord(operator, img, operator, img, r))
    /\ UNCHANGED <<ctor_args, operator>>
    /\ UNCHANGED <<schema_args, results, schema_pc>>
    /\ UNCHANGED psnrVars
    /\ UNCHANGED pipeVars
    /\ UNCHANGED appVars

NextReuse ==
    \/ \E k \in {Rat(-1, 1), Rat(1, 400)} : NewInverseOperator(k, 50, PowerOfTen(1, 6))
    \/ \E signal_variance \in {None, Float(100)} : NewWienerOperator(Rat(1, 400), 100, signal_variance)
    \/ \E img \in ReuseImages : ApplyAgain(img)

SpecReuse == InitReuse /\ [][NextReuse]_vars

---------------------------------------------------------------------------
(* C21: the regularized inverse response *)

\* the grids on which the response of a constructed inverse operator is read
ResponseShapes == { <<rows, cols>> : rows \in 1..3, cols \in 1..3 }

\* an InverseFilterOperator has been constructed
InverseConstructed ==
    /\ operator # None
    /\ operator.kind = "InverseFilterOperator"

\* R = H / (|H|^2 + alpha) of the operator of the current state at position p
\* of a rows x cols grid, as a count of 1/Scale
ResponseR(rows, cols, p) == regularized_inverse(InverseDegradation(operator, rows, cols)[p])

\* C21: for every accepted k, cutoff_radius and epsilon and at every
\* frequency, 0 < R <= 5, the combined response R*L + (1 - L) lies between
\* min(R, 1) and max(R, 1), and it is 1 where L = 0
C21_RegularizedResponseBounded ==
    InverseConstructed =>
        \A shp \in ResponseShapes : \A p \in 0..(shp[1] * shp[2] - 1) :
            LET R == ResponseR(shp[1], shp[2], p)
                L == lowpass_filter(shp[1], shp[2], operator.cutoff_radius)[p]
                response == InverseFilterResponse(operator, shp[1], shp[2])[p]
            IN /\ 0 < R
               /\ R <= 5 * Scale
               /\ Min(R, Scale) <= response
               /\ response <= Max(R, Scale)
               /\ L = 0 => response = Scale

---------------------------------------------------------------------------
(* C22: the percentile normalizer on its non-degenerate path *)

\* 100 times the 1st and the 99th percentile of the restored field
FieldLow == PercentileTimes100(RestoredField.num, size(degraded_image), 1)

FieldHigh == PercentileTimes100(RestoredField.num, size(degraded_image), 99)

\* apply returned from the branch p_high > p_low
StretchedField ==
    /\ AppliedTo2D
    /\ raised = None
    /\ RestoredField.finite
    /\ FieldHigh > FieldLow

\* C22: on the non-degenerate path the normalizer maps the 1st percentile to
\* 0 and the 99th to 255 linearly, rounds and clips: a sample is the rounded
\* value of 255 * (x - p_low) / (p_high - p_low) between the percentiles, 0 at
\* or below the 1st percentile and 255 at or above the 99th, the mapping is
\* monotone non-decreasing, and the output holds both a 0 and a 255
C22_PercentileStretch ==
    StretchedField =>
        LET n == size(degraded_image)
            x == [p \in 1..n |-> 100 * RestoredField.num[p - 1]]
            span == FieldHigh - FieldLow
        IN /\ \A p \in 1..n :
                 /\ x[p] <= FieldLow => output.data[p] = 0
                 /\ x[p] >= FieldHigh => output.data[p] = 255
                 /\ (FieldLow < x[p] /\ x[p] < FieldHigh) =>
                        2 * Abs(output.data[p] * span - 255 * (x[p] - FieldLow)) <= span
           /\ \A p, q \in 1..n : x[p] <= x[q] => output.data[p] <= output.data[q]
           /\ \E p \in 1..n : output.data[p] = 0
           /\ \E p \in 1..n : output.data[p] = 255

\* a stretched output with a sample strictly between 0 and 255
C22_Witness ==
    /\ StretchedField
    /\ \E p \in 1..size(degraded_image) : output.data[p] > 0 /\ output.data[p] < 255
    /\ \E p \in 1..size(degraded_image) : output.data[p] = 0
    /\ \E p \in 1..size(degraded_image) : output.data[p] = 255

---------------------------------------------------------------------------
(* main.py of HW3: file names and pair_original_and_degraded_images *)

\* the characters of the model's file names in code point order; a Python
\* str is the tuple of its characters
Alphabet ==
    << ".", "1", "2",
       "A", "B", "C", "D", "E", "F", "G", "H", "I", "J", "K", "L", "M",
       "N", "O", "P", "Q", "R", "S", "T", "U", "V", "W", "X", "Y", "Z",
       "_",
       "a", "b", "c", "d", "e", "f", "g", "h", "i", "j", "k", "l", "m",
       "n", "o", "p", "q", "r", "s", "t", "u", "v", "w", "x", "y", "z" >>

\* the rank of every character in code point order
Ranks ==
    [c \in { Alphabet[i] : i \in 1..Len(Alphabet) } |->
        CHOOSE i \in 1..Len(Alphabet) : Alphabet[i] = c]

\* ord(c), up to the gaps between the characters of the alphabet
Ord(c) == Ranks[c]

\* str.lower() on one character
LowerChar(c) ==
    IF Ord(c) >= Ord("A") /\ Ord(c) <= Ord("Z")
    THEN Alphabet[Ord(c) - Ord("A") + Ord("a")]
    ELSE c

\* str.lower()
Lower(s) == [i \in 1..Len(s) |-> LowerChar(s[i])]

\* sub in s
Contains(s, sub) ==
    \E i \in 1..(Len(s) - Len(sub) + 1) : SubSeq(s, i, i + Len(sub) - 1) = sub

RECURSIVE StrLess(_, _)
\* a < b for two Python strings: lexicographic by code point
StrLess(a, b) ==
    IF Len(b) = 0 THEN FALSE
    ELSE IF Len(a) = 0 THEN TRUE
    ELSE IF Head(a) # Head(b) THEN Ord(Head(a)) < Ord(Head(b))
    ELSE StrLess(Tail(a), Tail(b))

RECURSIVE InsertSorted(_, _)
\* the sorted list with one more name, placed after its equals
InsertSorted(list, name) ==
    IF Len(list) = 0 THEN <<name>>
    ELSE IF StrLess(name, Head(list)) THEN <<name>> \o list
    ELSE <<Head(list)>> \o InsertSorted(Tail(list), name)

RECURSIVE Sorted(_)
\* sorted(names), list.sort(): ascending and stable
Sorted(names) ==
    IF Len(names) = 0 THEN <<>>
    ELSE InsertSorted(Sorted(SubSeq(names, 1, Len(names) - 1)), names[Len(names)])

Keyword_degraded == <<"d", "e", "g", "r", "a", "d", "e", "d">>

Keyword_degradation == <<"d", "e", "g", "r", "a", "d", "a", "t", "i", "o", "n">>

Keyword_noise == <<"n", "o", "i", "s", "e">>

Keyword_blur == <<"b", "l", "u", "r">>

\* a keyword test that forgets name.lower()
LooksDegraded_case_sensitive(name) ==
    \/ Contains(name, Keyword_degraded)
    \/ Contains(name, Keyword_degradation)
    \/ Contains(name, Keyword_noise)
    \/ Contains(name, Keyword_blur)

\* 'degraded' in name_lower or 'degradation' in name_lower or
\* 'noise' in name_lower or 'blur' in name_lower
LooksDegraded(name) ==
    LET name_lower == Lower(name)
    IN \/ Contains(name_lower, Keyword_degraded)
       \/ Contains(name_lower, Keyword_degradation)
       \/ Contains(name_lower, Keyword_noise)
       \/ Contains(name_lower, Keyword_blur)

\* the names of the list that satisfy (keep = TRUE) or fail the keyword test,
\* in the order of the list
Classified(image_list, keep) ==
    SelectSeq(image_list, LAMBDA name : LooksDegraded(name) = keep)

\* a positional pairing of neighbours: sorted[i] with sorted[i + 1]
PairByOrder_neighbours(sorted_names) ==
    [i \in 1..(Len(sorted_names) \div 2) |-> <<sorted_names[i], sorted_names[i + 1]>>]

\* the loop over range(half): (sorted_names[i], sorted_names[half + i])
PairByOrder(sorted_names) ==
    LET half == Len(sorted_names) \div 2
    IN [i \in 1..half |-> <<sorted_names[i], sorted_names[half + i]>>]

\* pair_original_and_degraded_images(image_names, logger): the pairs and the
\* branch that produced them
pair_original_and_degraded_images(image_list) ==
    LET original_images == Classified(image_list, FALSE)
        degraded_images == Classified(image_list, TRUE)
    IN IF Len(original_images) = Len(degraded_images) /\ Len(degraded_images) > 0 THEN
           [pairs |-> [i \in 1..Len(original_images) |->
                          <<Sorted(original_images)[i], Sorted(degraded_images)[i]>>],
            mode |-> "pattern",
            warnings |-> <<>>]
       ELSE IF Len(image_list) \div 2 > 0 THEN
           [pairs |-> PairByOrder(Sorted(image_list)),
            mode |-> "order",
            warnings |-> <<>>]
       ELSE
           [pairs |-> [i \in 1..Len(image_list) |-> <<image_list[i], image_list[i]>>],
            mode |-> "self",
            warnings |-> <<"Could not pair images; using self-pairing for testing">>]

\* the longest list of names handed to the pairing
MaxNames == 4

\* "a.bmp", "b.bmp", "Z.bmp", "a_noise.bmp", "b_blur.bmp", "B_NOISE.bmp",
\* "c_degraded.bmp", "a.png"
NamePool ==
    { <<"a", ".", "b", "m", "p">>,
      <<"b", ".", "b", "m", "p">>,
      <<"Z", ".", "b", "m", "p">>,
      <<"a", "_", "n", "o", "i", "s", "e", ".", "b", "m", "p">>,
      <<"b", "_", "b", "l", "u", "r", ".", "b", "m", "p">>,
      <<"B", "_", "N", "O", "I", "S", "E", ".", "b", "m", "p">>,
      <<"c", "_", "d", "e", "g", "r", "a", "d", "e", "d", ".", "b", "m", "p">>,
      <<"a", ".", "p", "n", "g">> }

\* the lists of names of the model: any order, repeats included
NameLists == UNION { [1..n -> NamePool] : n \in 0..MaxNames }

InitPairing ==
    /\ OperatorIdle
    /\ SchemaIdle
    /\ PsnrIdle
    /\ PipelineIdle
    /\ AppIdle

\* image_pairs = pair_original_and_degraded_images(image_names, logger)
PairImages(names) ==
    /\ driver_pc = "start"
    /\ image_names' = names
    /\ LET r == pair_original_and_degraded_images(names)
       IN /\ pairs' = r.pairs
          /\ warnings' = warnings \o r.warnings
    /\ driver_pc' = "paired"
    /\ UNCHANGED <<workerVars, guiVars, equalizationVars>>
    /\ UNCHANGED <<ctor_args, operator, degraded_image, output, calls>>
    /\ UNCHANGED schemaVars
    /\ UNCHANGED psnrVars
    /\ UNCHANGED pipeVars

\* main pairs the names once
NextPairing ==
    /\ driver_pc = "start"
    /\ \E names \in NameLists : PairImages(names)

SpecPairing == InitPairing /\ [][NextPairing]_vars

---------------------------------------------------------------------------
(* C23, C24: the pairing of file names *)

\* the lower-cased name contains one of the four keywords
HasKeyword(name) ==
    \E kw \in {Keyword_degraded, Keyword_degradation, Keyword_noise, Keyword_blur} :
        Contains(Lower(name), kw)

\* the number of positions of the list that hold the name
Occurrences(list, name) == Cardinality({ i \in 1..Len(list) : list[i] = name })

\* the list holds the names of the positions idx of image_names, each as
\* often, in ascending order
IsSortingOf(list, idx) ==
    /\ Len(list) = Cardinality(idx)
    /\ \A i \in 1..(Len(list) - 1) : ~StrLess(list[i + 1], list[i])
    /\ \A name \in NamePool :
           Occurrences(list, name) = Cardinality({ i \in idx : image_names[i] = name })

\* the first and the second names of the pairs
Firsts == [i \in 1..Len(pairs) |-> pairs[i][1]]

Seconds == [i \in 1..Len(pairs) |-> pairs[i][2]]

\* the positions of image_names with and without a keyword
DegradedPositions == { i \in 1..Len(image_names) : HasKeyword(image_names[i]) }

OriginalPositions == { i \in 1..Len(image_names) : ~HasKeyword(image_names[i]) }

\* the two classes are equal in number and not empty
BalancedClasses ==
    /\ Cardinality(DegradedPositions) = Cardinality(OriginalPositions)
    /\ Cardinality(DegradedPositions) > 0

\* C23: the pairing mode.  When the names with a keyword and the other names
\* are equal in number and not zero, the i-th sorted original goes with the
\* i-th sorted degraded name; otherwise sorted[i] goes with sorted[half + i]
\* for i < half = n div 2; a name is paired with itself only when fewer than
\* two names were given
C23_PairingMode ==
    driver_pc = "paired" =>
        LET n == Len(image_names)
            half == n \div 2
        IN IF BalancedClasses THEN
               /\ IsSortingOf(Firsts, OriginalPositions)
               /\ IsSortingOf(Seconds, DegradedPositions)
           ELSE IF n >= 2 THEN
               /\ Len(pairs) = half
               /\ \E rest \in {<<>>} \cup { <<image_names[i]>> : i \in 1..n } :
                      /\ Len(rest) = n - 2 * half
                      /\ IsSortingOf(Firsts \o Seconds \o rest, 1..n)
           ELSE
               pairs = [i \in 1..n |-> <<image_names[i], image_names[i]>>]

\* two originals and two degraded names, one of them in upper case, were
\* paired by the keyword
C23_Witness ==
    /\ driver_pc = "paired"
    /\ BalancedClasses
    /\ Len(pairs) = 2
    /\ \E i \in 1..2 : pairs[i][2] = <<"B", "_", "N", "O", "I", "S", "E", ".", "b", "m", "p">>
    /\ \E i \in 1..2 : pairs[i][1] = <<"Z", ".", "b", "m", "p">>

\* the names of the list are pairwise different
DistinctNames ==
    \A i, j \in 1..Len(image_names) : image_names[i] = image_names[j] => i = j

\* C24: for n >= 2 distinct names the pairing returns exactly n div 2 pairs,
\* each of two different names of the list, and no name is in two pairs
C24_PairsPartition ==
    (driver_pc = "paired" /\ Len(image_names) >= 2 /\ DistinctNames) =>
        /\ Len(pairs) = Len(image_names) \div 2
        /\ \A i \in 1..Len(pairs) :
               /\ pairs[i][1] # pairs[i][2]
               /\ \E a, b \in 1..Len(image_names) :
                      pairs[i] = <<image_names[a], image_names[b]>>
        /\ \A i, j \in 1..Len(pairs) :
               i # j => {pairs[i][1], pairs[i][2]} \cap {pairs[j][1], pairs[j][2]} = {}

\* four distinct names without a balanced keyword split were paired by order
C24_Witness ==
    /\ driver_pc = "paired"
    /\ Len(image_names) = 4
    /\ DistinctNames
    /\ ~BalancedClasses
    /\ Len(pairs) = 2

---------------------------------------------------------------------------
(* C25: the noise-to-signal ratio of an accepted Wiener operator *)

\* C25: for every WienerFilterOperator that construction accepted and every
\* input image, computing the noise-to-signal ratio does not raise, the ratio
\* is finite and not negative, and the denominator |H|^2 + NSR is strictly
\* positive at every frequency
C25_NsrFiniteNonNegative ==
    WienerAppliedTo2D =>
        LET est == estimate_nsr(operator, degraded_image)
            rows == degraded_image.shape[1]
            cols == degraded_image.shape[2]
            H == WienerDegradation(operator, rows, cols)
        IN /\ est.exc = None
           /\ raised = None
           /\ est.nsr.d > 0
           /\ est.nsr.n >= 0
           /\ \A p \in 0..(rows * cols - 1) : WienerDenominator(H[p], est.nsr) > 0

(***************************************************************************)
(* The driver of main.py: file names of the results.                       *)
(***************************************************************************)

\* a split at the first dot of the name, the bug of a hand-written
\* name.split('.')[0]
splitext_first_dot(p) ==
    IF \E i \in 1..Len(p) : p[i] = "."
    THEN LET d == CHOOSE i \in 1..Len(p) :
                      /\ p[i] = "."
                      /\ \A j \in 1..(i - 1) : p[j] # "."
         IN <<SubSeq(p, 1, d - 1), SubSeq(p, d, Len(p))>>
    ELSE <<p, <<>>>>

\* os.path.splitext on a name without directory separators: the split is at
\* the last dot, unless only dots come before it
splitext(p) ==
    LET d == IF \E i \in 1..Len(p) : p[i] = "."
             THEN CHOOSE i \in 1..Len(p) :
                      /\ p[i] = "."
                      /\ \A j \in (i + 1)..Len(p) : p[j] # "."
             ELSE 0
    IN IF d > 0 /\ \E j \in 1..(d - 1) : p[j] # "."
       THEN <<SubSeq(p, 1, d - 1), SubSeq(p, d, Len(p))>>
       ELSE <<p, <<>>>>

\* save_image_array_to_file: os.path.join('results', output_filename)
ResultPath(output_filename) == [directory |-> "results", name |-> output_filename]

\* save_results(image_filename, results, loader): the paths it writes, in
\* the order it writes them
save_results(image_filename) ==
    LET base_name == splitext(image_filename)[1]
    IN << ResultPath(base_name
                       \o <<"_", "i", "n", "v", "e", "r", "s", "e", ".", "b", "m", "p">>),
          ResultPath(base_name
                       \o <<"_", "w", "i", "e", "n", "e", "r", ".", "b", "m", "p">>) >>

\* processing_worker: save_results(f'{os.path.splitext(original_name)[0]}_restored', ...)
WorkerSaves(original_name) ==
    save_results(splitext(original_name)[1]
                   \o <<"_", "r", "e", "s", "t", "o", "r", "e", "d">>)

(***************************************************************************)
(* ImageReviewApp: the list of processed items and the index of the one    *)
(* on display.                                                             *)
(***************************************************************************)

\* ProcessedItem(filename=f"{original_name} <-> {degraded_name}", ...)
ProcessedItem(original_name, degraded_name) ==
    [filename |-> <<original_name, degraded_name>>]

\* update_display of the two classes named ImageReviewApp, HW1's and HW2's,
\* whose interface the class that HW3's main.py imports has: HW2's clamps
\* the index, HW1's _update_display reads
\* processed_items[current_index] and leaves the index as it is; neither
\* touches it on an empty list
update_display(class, items, index) ==
    IF items = <<>> \/ class = "HW1"
    THEN index
    ELSE Max(0, Min(index, Len(items) - 1))

\* update_processed_items: the list is replaced; a non-empty list is shown
\* from its first item, an empty one leaves the index as it was
update_processed_items(class, items, index, new_items) ==
    [processed_items |-> new_items,
     current_index   |-> IF new_items # <<>>
                         THEN update_display(class, new_items, 0)
                         ELSE index]

\* a step forward that stops at the last item
show_next_saturating(class, items, index) ==
    IF items = <<>>
    THEN index
    ELSE Min(index + 1, Len(items) - 1)

\* show_next
show_next(class, items, index) ==
    IF items = <<>>
    THEN index
    ELSE update_display(class, items, (index + 1) % Len(items))

\* show_previous
show_previous(class, items, index) ==
    IF items = <<>>
    THEN index
    ELSE update_display(class, items, (index - 1) % Len(items))

\* handle_combo_selected, in HW1 _on_combo_selected: the first item with
\* the selected file name
handle_combo_selected(class, items, index, selection) ==
    IF \E i \in 1..Len(items) : items[i].filename = selection
    THEN LET first == CHOOSE i \in 1..Len(items) :
                          /\ items[i].filename = selection
                          /\ \A j \in 1..(i - 1) : items[j].filename # selection
         IN update_display(class, items, first - 1)
    ELSE index

(***************************************************************************)
(* The driver of main.py: the main thread, which builds the window, starts *)
(* the worker and runs the main loop, and the daemon thread of             *)
(* processing_worker.  What the restoration of one pair computes is the    *)
(* pipeline above; here only its outcome counts, and the environment       *)
(* chooses it.  The log lines the handler hands to the window carry no     *)
(* state the driver reads and are left out.                                *)
(***************************************************************************)

\* list_available_images: the entries of a directory, sorted; the files
\* that may be in it are six
DirectoryListings ==
    LET pool ==
    { <<"a", ".", "b", "m", "p">>,
      <<"b", ".", "b", "m", "p">>,
      <<"a", ".", "b", ".", "b", "m", "p">>,
      <<"a", ".", "c", ".", "b", "m", "p">>,
      <<"a", "_", "n", "o", "i", "s", "e", ".", "b", "m", "p">>,
      <<"b", "_", "b", "l", "u", "r", ".", "b", "m", "p">> }
    IN { names \in UNION { [1..n -> pool] : n \in 0..MaxNames } :
           \A i \in 1..(Len(names) - 1) : StrLess(names[i], names[i + 1]) }

\* how the body of the loop ends for one pair: it completes, it raises
\* before save_results, or it raises after it (in visualize_results)
Outcomes == {"ok", "raises before save", "raises after save"}

StatusMessage(text, index) == [kind |-> "message", text |-> text, index |-> index]

DriverFrame ==
    /\ UNCHANGED equalizationVars
    /\ UNCHANGED <<ctor_args, operator, degraded_image, output, calls>>
    /\ UNCHANGED schemaVars
    /\ UNCHANGED psnrVars
    /\ UNCHANGED pipeVars

InitDriver ==
    /\ OperatorIdle
    /\ SchemaIdle
    /\ PsnrIdle
    /\ PipelineIdle
    /\ AppIdle

\* main up to app.run(): no image is an error that ends the program with
\* status 1; otherwise the names are paired, the window is built and the
\* worker is started
Main(names, fails, outs) ==
    /\ driver_pc = "start"
    /\ image_names' = names
    /\ IF names = <<>>
       THEN /\ driver_pc' = "exited"
            /\ exit_status' = 1
            /\ UNCHANGED <<pairs, warnings, load_fails, outcomes, worker_pc>>
       ELSE LET r == pair_original_and_degraded_images(names)
            IN /\ pairs' = r.pairs
               /\ warnings' = warnings \o r.warnings
               /\ load_fails' = fails
               /\ outs \in [1..Len(r.pairs) -> Outcomes]
               /\ outcomes' = outs
               /\ worker_pc' = "load"
               /\ driver_pc' = "mainloop"
               /\ UNCHANGED exit_status
    /\ UNCHANGED <<pair_index, processed_items, processing_error, scheduled,
                   handled, written>>
    /\ UNCHANGED guiVars
    /\ DriverFrame

\* processing_worker: the images are loaded, all of them, before any pair
WorkerLoad ==
    /\ driver_pc \in {"mainloop", "closed"}
    /\ worker_pc = "load"
    /\ scheduled' = Append(scheduled, StatusMessage("Loading test images...", 0))
    /\ IF load_fails
       THEN /\ worker_pc' = "except"
            /\ UNCHANGED <<pair_index, processed_items>>
       ELSE /\ worker_pc' = "loop"
            /\ pair_index' = 1
            /\ processed_items' = <<>>
    /\ UNCHANGED <<load_fails, outcomes, processing_error, handled, written,
                   exit_status>>
    /\ UNCHANGED <<driverVars, guiVars, warnings>>
    /\ DriverFrame

\* a loop that catches the exception of a pair, logs it and goes on to the
\* next pair
WorkerProcessPair_continue ==
    /\ driver_pc \in {"mainloop", "closed"}
    /\ worker_pc = "loop"
    /\ pair_index <= Len(pairs)
    /\ scheduled' = Append(scheduled, StatusMessage("Processing", pair_index))
    /\ written' = IF outcomes[pair_index] = "raises before save"
                  THEN written
                  ELSE LET paths == WorkerSaves(pairs[pair_index][1])
                       IN written \o [i \in 1..Len(paths) |->
                                        [pair |-> pair_index, path |-> paths[i]]]
    /\ processed_items' = IF outcomes[pair_index] = "ok"
                          THEN Append(processed_items,
                                      ProcessedItem(pairs[pair_index][1],
                                                    pairs[pair_index][2]))
                          ELSE processed_items
    /\ pair_index' = pair_index + 1
    /\ UNCHANGED <<load_fails, outcomes, worker_pc, processing_error, handled,
                   exit_status>>
    /\ UNCHANGED <<driverVars, guiVars, warnings>>
    /\ DriverFrame

\* processing_worker: one turn of the loop over image_pairs; an exception
\* leaves the loop for the handler
WorkerProcessPair ==
    /\ driver_pc \in {"mainloop", "closed"}
    /\ worker_pc = "loop"
    /\ pair_index <= Len(pairs)
    /\ scheduled' = Append(scheduled, StatusMessage("Processing", pair_index))
    /\ written' = IF outcomes[pair_index] = "raises before save"
                  THEN written
                  ELSE LET paths == WorkerSaves(pairs[pair_index][1])
                       IN written \o [i \in 1..Len(paths) |->
                                        [pair |-> pair_index, path |-> paths[i]]]
    /\ IF outcomes[pair_index] = "ok"
       THEN /\ processed_items' = Append(processed_items,
                                         ProcessedItem(pairs[pair_index][1],
                                                       pairs[pair_index][2]))
            /\ pair_index' = pair_index + 1
            /\ UNCHANGED worker_pc
       ELSE /\ worker_pc' = "except"
            /\ UNCHANGED <<processed_items, pair_index>>
    /\ UNCHANGED <<load_fails, outcomes, processing_error, handled, exit_status>>
    /\ UNCHANGED <<driverVars, guiVars, warnings>>
    /\ DriverFrame

\* processing_worker after the loop: the items, then the closing message
WorkerDeliver ==
    /\ driver_pc \in {"mainloop", "closed"}
    /\ worker_pc = "loop"
    /\ pair_index > Len(pairs)
    /\ scheduled' = scheduled \o << [kind |-> "items", items |-> processed_items],
                                    StatusMessage("Processing complete", 0) >>
    /\ worker_pc' = "returned"
    /\ UNCHANGED <<load_fails, outcomes, pair_index, processed_items,
                   processing_error, handled, written, exit_status>>
    /\ UNCHANGED <<driverVars, guiVars, warnings>>
    /\ DriverFrame

\* except Exception: processing_error.set()
WorkerSetError ==
    /\ driver_pc \in {"mainloop", "closed"}
    /\ worker_pc = "except"
    /\ processing_error' = TRUE
    /\ worker_pc' = "schedule error"
    /\ UNCHANGED <<load_fails, outcomes, pair_index, processed_items,
                   scheduled, handled, written, exit_status>>
    /\ UNCHANGED <<driverVars, guiVars, warnings>>
    /\ DriverFrame

\* except Exception: app.schedule_error(str(worker_exception))
WorkerScheduleError ==
    /\ driver_pc \in {"mainloop", "closed"}
    /\ worker_pc = "schedule error"
    /\ scheduled' = Append(scheduled, [kind |-> "error"])
    /\ worker_pc' = "returned"
    /\ UNCHANGED <<load_fails, outcomes, pair_index, processed_items,
                   processing_error, handled, written, exit_status>>
    /\ UNCHANGED <<driverVars, guiVars, warnings>>
    /\ DriverFrame

\* root.mainloop(): the oldest callback that has not run yet runs
RunCallback ==
    /\ driver_pc = "mainloop"
    /\ handled < Len(scheduled)
    /\ LET callback == scheduled[handled + 1]
       IN IF callback.kind = "items"
          THEN LET app == update_processed_items(app_class, app_processed_items,
                                                 current_index, callback.items)
               IN /\ app_processed_items' = app.processed_items
                  /\ current_index' = app.current_index
                  /\ UNCHANGED app_class
          ELSE UNCHANGED guiVars
    /\ handled' = handled + 1
    /\ UNCHANGED <<load_fails, outcomes, worker_pc, pair_index, processed_items,
                   processing_error, scheduled, written, exit_status>>
    /\ UNCHANGED <<driverVars, warnings>>
    /\ DriverFrame

\* the user closes the window: root.mainloop() and with it app.run() return
CloseWindow ==
    /\ driver_pc = "mainloop"
    /\ driver_pc' = "closed"
    /\ UNCHANGED <<image_names, pairs>>
    /\ UNCHANGED <<workerVars, guiVars, warnings>>
    /\ DriverFrame

\* main after app.run(): sys.exit(1) if processing_error.is_set(), else the
\* return that ends the process, and the daemon thread with it, with status 0
MainExit ==
    /\ driver_pc = "closed"
    /\ exit_status' = IF processing_error THEN 1 ELSE 0
    /\ driver_pc' = "exited"
    /\ UNCHANGED <<image_names, pairs>>
    /\ UNCHANGED <<load_fails, outcomes, worker_pc, pair_index, processed_items,
                   processing_error, scheduled, handled, written>>
    /\ UNCHANGED <<guiVars, warnings>>
    /\ DriverFrame

NextDriver ==
    \/ \E names \in DirectoryListings, fails \in BOOLEAN :
         \E outs \in [1..Len(pair_original_and_degraded_images(names).pairs)
                        -> Outcomes] :
           Main(names, fails, outs)
    \/ WorkerLoad
    \/ WorkerProcessPair
    \/ WorkerDeliver
    \/ WorkerSetError
    \/ WorkerScheduleError
    \/ RunCallback
    \/ CloseWindow
    \/ MainExit

SpecDriver == InitDriver /\ [][NextDriver]_vars

(***************************************************************************)
(* C26: the files of the results                                           *)
(***************************************************************************)

\* the original file name without its final extension
BaseOf(original_name) == splitext(original_name)[1]

\* the two paths C26 names for a pair
NamedPaths(original_name) ==
    LET restored_name == BaseOf(original_name)
                           \o <<"_", "r", "e", "s", "t", "o", "r", "e", "d">>
    IN { ResultPath(restored_name
                      \o <<"_", "i", "n", "v", "e", "r", "s", "e", ".", "b", "m", "p">>),
         ResultPath(restored_name
                      \o <<"_", "w", "i", "e", "n", "e", "r", ".", "b", "m", "p">>) }

\* C26: every file a pair writes is results/<base>_restored_inverse.bmp or
\* results/<base>_restored_wiener.bmp, <base> being the name of its original
\* without the final extension, and two pairs whose originals differ in
\* <base> never write the same path.
C26_ResultPaths ==
    /\ \A i \in 1..Len(written) :
         written[i].path \in NamedPaths(pairs[written[i].pair][1])
    /\ \A i, j \in 1..Len(written) :
         BaseOf(pairs[written[i].pair][1]) # BaseOf(pairs[written[j].pair][1])
             => written[i].path # written[j].path

(***************************************************************************)
(* C27: the batch of the worker                                            *)
(***************************************************************************)

IsProcessingMessage(callback) ==
    /\ callback.kind = "message"
    /\ callback.text = "Processing"

IsItems(callback) == callback.kind = "items"

IsError(callback) == callback.kind = "error"

\* the pairs the worker has begun, in the order it began them
Begun == SelectSeq(scheduled, IsProcessingMessage)

\* the loading or one of the pairs begun has raised
BatchFailed ==
    \/ load_fails /\ worker_pc \notin {"not started", "load"}
    \/ \E i \in 1..Len(Begun) : outcomes[Begun[i].index] # "ok"

\* the items of all the pairs, in list order
AllItems == [i \in 1..Len(pairs) |-> ProcessedItem(pairs[i][1], pairs[i][2])]

ProcessedEveryPair ==
    /\ worker_pc \in {"loop", "returned"}
    /\ Len(processed_items) = Len(pairs)
    /\ ~BatchFailed

\* C28: in every interleaving of the worker and the main thread, a process
\* whose worker has raised ends with status 1, and a process ends with
\* status 0 only when its worker has processed every pair without raising.
C28_ExitStatus ==
    driver_pc = "exited"
        => /\ BatchFailed => exit_status = 1
           /\ exit_status = 0 => ProcessedEveryPair

(***************************************************************************)
(* ImageReviewApp on its own: the window under the calls of the worker and *)
(* the actions of the user.                                                *)
(***************************************************************************)

MaxItems == 3

\* the items of the model; two lists may hold the same item twice
GuiItemPool ==
    { [filename |-> <<"a", ".", "b", "m", "p">>],
      [filename |-> <<"b", ".", "b", "m", "p">>],
      [filename |-> <<"c", ".", "b", "m", "p">>] }

GuiItemLists == UNION { [1..n -> GuiItemPool] : n \in 0..MaxItems }

\* ImageReviewApp(processed_items, ...): index 0, whatever the list
InitGui ==
    /\ OperatorIdle
    /\ SchemaIdle
    /\ PsnrIdle
    /\ PipelineIdle
    /\ DriverIdle
    /\ WorkerIdle
    /\ EqualizationIdle
    /\ app_class \in {"HW1", "HW2"}
    /\ app_processed_items \in GuiItemLists
    /\ current_index = 0

UpdateProcessedItems(new_items) ==
    /\ LET app == update_processed_items(app_class, app_processed_items,
                                         current_index, new_items)
       IN /\ app_processed_items' = app.processed_items
          /\ current_index' = app.current_index
    /\ UNCHANGED app_class
    /\ UNCHANGED <<driverVars, workerVars, warnings>>
    /\ DriverFrame

ShowNext ==
    /\ current_index' = show_next(app_class, app_processed_items, current_index)
    /\ UNCHANGED <<app_class, app_processed_items>>
    /\ UNCHANGED <<driverVars, workerVars, warnings>>
    /\ DriverFrame

ShowPrevious ==
    /\ current_index' = show_previous(app_class, app_processed_items, current_index)
    /\ UNCHANGED <<app_class, app_processed_items>>
    /\ UNCHANGED <<driverVars, workerVars, warnings>>
    /\ DriverFrame

ComboSelected(selection) ==
    /\ current_index' = handle_combo_selected(app_class, app_processed_items,
                                              current_index, selection)
    /\ UNCHANGED <<app_class, app_processed_items>>
    /\ UNCHANGED <<driverVars, workerVars, warnings>>
    /\ DriverFrame

NextGui ==
    \/ \E new_items \in GuiItemLists : UpdateProcessedItems(new_items)
    \/ ShowNext
    \/ ShowPrevious
    \/ \E item \in GuiItemPool : ComboSelected(item.filename)

SpecGui == InitGui /\ [][NextGui]_vars

(***************************************************************************)
(* C29: the index of the item on display                                   *)
(***************************************************************************)

\* C29: whenever the list of processed items is not empty the index is a
\* position of it; from there show_next and show_previous step cyclically
\* and undo each other, on an empty list they leave the index alone, and an
\* update with a non-empty list puts the index at 0.
C29_IndexInRange ==
    LET items == app_processed_items
        next(i) == show_next(app_class, items, i)
        previous(i) == show_previous(app_class, items, i)
    IN /\ items # <<>> =>
            /\ current_index \in 0..(Len(items) - 1)
            /\ next(current_index) = IF current_index = Len(items) - 1
                                     THEN 0
                                     ELSE current_index + 1
            /\ previous(current_index) = IF current_index = 0
                                         THEN Len(items) - 1
                                         ELSE current_index - 1
            /\ previous(next(current_index)) = current_index
            /\ next(previous(current_index)) = current_index
       /\ items = <<>> =>
            /\ next(current_index) = current_index
            /\ previous(current_index) = current_index
       /\ \A new_items \in GuiItemLists \ {<<>>} :
            update_processed_items(app_class, items, current_index,
                                   new_items).current_index = 0

\* the last of three items is on display: the next step wraps around
C29_Witness ==
    /\ Len(app_processed_items) = 3
    /\ current_index = 2
    /\ show_next(app_class, app_processed_items, current_index) = 0

(***************************************************************************)
(* Histogram equalization: HW1's HistogramEqualizationProcessor and the    *)
(* single channel of HW4's RGBHistogramEqualization, on one grayscale      *)
(* image.                                                                  *)
(***************************************************************************)

MaxPixels == 4

\* the non-empty 2-D uint8 images of up to MaxPixels pixels
GrayImages ==
    UNION { { NdArray(shp, "uint8", d) : d \in [1..Product(shp) -> {0, 128, 255}] }
            : shp \in { s \in (1..MaxPixels) \X (1..MaxPixels) :
                            Product(s) <= MaxPixels } }

\* calculate_image_histogram_distribution: 256 bins, one count per level
calculate_image_histogram_distribution(img) ==
    Evaluated([v \in 0..255 |->
                 Cardinality({ p \in 1..size(img) : img.data[p] = v })])

RECURSIVE SumOfBins(_, _, _)
\* histogram_distribution[low] + ... + histogram_distribution[high], summed
\* by halves
SumOfBins(histogram_distribution, low, high) ==
    IF low = high
    THEN histogram_distribution[low]
    ELSE LET middle == (low + high) \div 2
         IN SumOfBins(histogram_distribution, low, middle)
              + SumOfBins(histogram_distribution, middle + 1, high)

\* calculate_cumulative_distribution_function: the cumulative distribution
\* and its first value above zero, 0 when there is none
calculate_cumulative_distribution_function(histogram_distribution) ==
    LET cdf == Evaluated([k \in 0..255 |-> SumOfBins(histogram_distribution, 0, k)])
    IN [cdf |-> cdf,
        minimum |-> IF \E k \in 0..255 : cdf[k] > 0
                    THEN cdf[CHOOSE k \in 0..255 :
                                 /\ cdf[k] > 0
                                 /\ \A j \in 0..(k - 1) : cdf[j] = 0]
                    ELSE 0]

\* HW1 apply_histogram_equalization: the division of the first pixel raises
\* when the smallest cumulative count is the number of pixels
apply_histogram_equalization(img) ==
    LET total_pixels == size(img)
        c == calculate_cumulative_distribution_function(
                 calculate_image_histogram_distribution(img))
    IN IF total_pixels - c.minimum = 0
       THEN [exc |-> [kind |-> "ZeroDivisionError", message |-> "division by zero"],
             value |-> None]
       ELSE [exc |-> None,
             value |-> NdArray(img.shape, "uint8",
                         [p \in 1..size(img) |->
                             Clip255(((c.cdf[img.data[p]] - c.minimum) * 255)
                                       \div (total_pixels - c.minimum))])]

\* HW4 _equalize_single_channel(channel, rows, cols)
equalize_single_channel(channel) ==
    LET total_pixels == size(channel)
        c == calculate_cumulative_distribution_function(
                 calculate_image_histogram_distribution(channel))
    IN [exc |-> None,
        value |-> NdArray(channel.shape, "uint8",
                    [p \in 1..size(channel) |->
                        IF total_pixels - c.minimum > 0
                        THEN Clip255(((c.cdf[channel.data[p]] - c.minimum) * 255)
                                       \div (total_pixels - c.minimum))
                        ELSE channel.data[p]])]

InitEqualization ==
    /\ OperatorIdle
    /\ SchemaIdle
    /\ PsnrIdle
    /\ PipelineIdle
    /\ DriverIdle
    /\ WorkerIdle
    /\ GuiIdle
    /\ gray_image \in GrayImages
    /\ equalized_image_result = None
    /\ equalized = None

\* both equalizations are applied to the image
Equalize ==
    /\ equalized_image_result = None
    /\ equalized_image_result' = apply_histogram_equalization(gray_image)
    /\ equalized' = equalize_single_channel(gray_image)
    /\ UNCHANGED gray_image
    /\ UNCHANGED <<driverVars, workerVars, guiVars, warnings>>
    /\ UNCHANGED <<ctor_args, operator, degraded_image, output, calls>>
    /\ UNCHANGED schemaVars
    /\ UNCHANGED psnrVars
    /\ UNCHANGED pipeVars

SpecEqualization == InitEqualization /\ [][Equalize]_vars

(***************************************************************************)
(* C30: HW1's histogram equalization                                       *)
(***************************************************************************)

\* C30: for every non-empty 2-D 8-bit image, one of a single gray level
\* included, HW1's apply_histogram_equalization returns without raising an
\* 8-bit image of the same shape with every sample in 0..255, the same
\* image that HW4's single-channel equalization gives.
C30_EqualizationTotal ==
    equalized_image_result # None
        => /\ equalized_image_result.exc = None
           /\ equalized_image_result.value.dtype = "uint8"
           /\ equalized_image_result.value.shape = gray_image.shape
           /\ \A p \in 1..size(gray_image) :
                equalized_image_result.value.data[p] \in 0..255
           /\ equalized_image_result = equalized

===========================================================================
